---- MODULE Spec2Model ----
(***************************************************************************)
(* Conversation state core of the customer-support assistant:              *)
(*   StateManager   (components/state_manager.py)                          *)
(*   Orchestrator   (components/orchestrator.py)                           *)
(*   the transcription callback of CustomerSupportAIApp (main.py)          *)
(* Threads interleave at the granularity of one Python statement. A locked  *)
(* block that changes the state in more than one statement is split into   *)
(* those statements, so that the mutual exclusion, and not the step size,  *)
(* is what serialises it.                                                  *)
(***************************************************************************)
EXTENDS Naturals, Sequences, FiniteSets, TLC

\* ---------------------------------------------------------------- bounds
MaxAppends == 2   \* transcript appends over a run
MaxClears  == 1   \* clear_transcript calls over a run
MaxTasks   == 1   \* Task objects created over a run
MaxStoredAppends == 10  \* transcript appends over a run with a transcript_storage
MaxTriggers == 2   \* process_trigger_sync calls over a run
MaxSaves == 2   \* save_current_transcript calls over a run
MaxListeners == 2   \* add_listener calls over a run
MaxReroutes == 1    \* route_task calls over a run that are given an already routed Task
MaxStops == 2       \* calls of CustomerSupportAIApp.stop over a run
MaxOverlap == 2     \* Task objects created over a run of overlapping route_task calls
MaxDropped == 1     \* partial or empty transcripts delivered over a run
MaxFailures == 1    \* entry callbacks that raise over a run

\* ------------------------------------------------------- execution contexts
Producer  == "producer"     \* background thread running the transcription callback
Consumers == {"ui"}         \* request/response context: button handlers, route_task
Readers   == {"poller"}     \* the UI's periodic refresh; it keeps the value of its latest call
Threads   == {Producer} \cup Consumers \cup Readers
Stoppers  == {"main"}       \* the main thread, which calls CustomerSupportAIApp.stop
Handlers  == {"clear"}      \* the handler of the Clear button, run beside the trigger's
Routers   == Consumers \cup Handlers   \* the UI threads that can run a trigger

NoOne  == "nobody"              \* the lock is free
None   == 0                     \* Python None for a Task reference
NoSnap == [none |-> TRUE]       \* a thread holds no returned value

MaxTaskObjects == IF MaxOverlap > MaxTasks THEN MaxOverlap ELSE MaxTasks
TaskIds   == 1..MaxTaskObjects
TaskTypes == {"rag", "agent", "other"}
Terminal  == {"completed", "failed"}
Statuses  == {"pending", "processing"} \cup Terminal

\* values a resolver can hand back: a text, the empty string, or None
\* (rag_service.search returns response["answer"] unchecked; execute_task
\* returns message.content, which is Optional)
NoResult       == "None"
ResolverValues == {"answer", "", NoResult}
UnknownResult  == "Unknown task type"
ErrorResult    == "Error: boom"          \* f"Error: {str(e)}"

\* the errors a resolver can raise, by their message
Errors    == {"boom", "timeout"}
NoError   == "no error"
NoOutcome == [kind |-> "none", value |-> "none"]

VARIABLES
  conversation_id,  \* state.conversation_id; uuid4 values are numbered in minting order
  transcript,       \* contents of the list object state.transcript
  current_task,     \* state.current_task: a Task reference or None
  task_history,     \* contents of the list object state.task_history
  tasks,            \* the Task objects on the heap, by reference
  ntasks,           \* number of Task objects created
  lock,             \* owner of StateManager._lock
  pc,               \* statement each thread is at
  rtask,            \* route_task / update_task: the task argument
  rres,             \* route_task: local variable result
  ret,              \* update_task: where route_task continues
  snap,             \* last value get_state returned to the reader
  tcopy,            \* last value get_transcript returned to the reader
  appended,         \* number of appends completed so far
  clears,           \* number of clear_transcript calls started
  routes,           \* number of route_task calls given an already routed Task
  trace,            \* statuses the task took during the route_task call
  published,        \* statuses passed to update_task during that call
  resolverCalls,    \* resolver calls made during that call
  before,           \* task_history as it was when the update_task call began
  rexc,             \* route_task: the exception the resolver raised, if any
  outcome,          \* how the last route_task call came back to its caller
  resolverLog,      \* the resolver calls of the route_task call: which one, with what
  listeners,        \* StateManager._listeners
  invoked,          \* the listeners the last notification called, in order
  given,            \* what the listeners of the last notification were handed
  storage,          \* whether a transcript_storage was passed to StateManager
  saveTasks,        \* the _auto_save_transcript tasks created so far
  saveRet,          \* how the last save_current_transcript call came back
  writes,           \* the files transcript_storage.save_transcript has written
  trig,             \* process_trigger_sync: its locals and what it returned
  speech,           \* SpeechToTextService: is_running, transcriber, _audio
  app               \* CustomerSupportAIApp: is_running, background_loop, stop calls

vars == <<conversation_id, transcript, current_task, task_history, tasks, ntasks,
          lock, pc, rtask, rres, ret, snap, tcopy, appended, clears, routes,
          trace, published, resolverCalls, before, rexc, outcome, resolverLog,
          listeners, invoked, given, storage, saveTasks,
          saveRet, writes, trig, speech, app>>

stateVars == <<conversation_id, transcript, current_task, task_history>>
routeVars == <<rtask, rres, ret, trace, published, resolverCalls, routes, before>>
heldVars  == <<snap, tcopy>>
callVars  == <<rexc, outcome, resolverLog>>
notifyVars == <<listeners, invoked, given>>
saveVars  == <<storage, saveTasks>>
manualVars == <<saveRet, writes>>
stopVars  == <<speech, app>>
extVars   == <<manualVars, trig, stopVars>>

\* ---------------------------------------------------------------- helpers
\* save_current_transcript has not been called; calls counts the calls, cid is
\* the argument self.state.conversation_id once it has been read
NotCalled == [kind |-> "not called", calls |-> 0, cid |-> None]

\* process_trigger_sync has not been called; n counts the calls, gen the calls
\* of generate_task_from_transcript the present call has made
NotTriggered ==
  [kind |-> "not called", n |-> 0, status |-> "", result |-> "", gen |-> 0,
   llm |-> [kind |-> "none"], empty |-> FALSE]

\* no reply of the LLM is being turned into a Task
NoReply == [kind |-> "none"]

\* SpeechToTextService.__init__: is_running False, no transcriber yet
\* handed counts the transcripts handed to the entry callback, dropped those
\* returned from without a callback, failed the callbacks that raised
SpeechConstructed ==
  [is_running |-> FALSE, transcriber |-> "None", audio |-> "ready",
   handed |-> 0, dropped |-> 0, failed |-> 0]

\* CustomerSupportAIApp.__init__: is_running False, background_loop None
\* stops counts the calls of stop that are over, raised tells whether one of
\* them raised, first is the service as the first of them left it
AppConstructed ==
  [is_running |-> FALSE, background_loop |-> "None", stop_scheduled |-> FALSE,
   stops |-> 0, raised |-> FALSE, first |-> SpeechConstructed]

Range(s) == {s[i] : i \in 1..Len(s)}

\* Task(...) with the defaults of the model: status "pending", result None
NewTaskObject(ty) == [status |-> "pending", result |-> NoResult, task_type |-> ty]

\* StateManager.__init__(transcript_storage): AppState(conversation_id=
\* str(uuid.uuid4())), no listener, RLock free
Constructed(ts) ==
  /\ conversation_id = 1
  /\ transcript = << >>
  /\ current_task = None
  /\ task_history = << >>
  /\ tasks = [k \in TaskIds |-> NewTaskObject("rag")]
  /\ ntasks = 0
  /\ lock = NoOne
  /\ pc = [t \in Threads \cup Handlers \cup Stoppers |-> "idle"]
  /\ rtask = [t \in Routers |-> None]
  /\ rres = [t \in Routers |-> NoResult]
  /\ ret = [t \in Routers |-> "idle"]
  /\ snap = [t \in Readers |-> NoSnap]
  /\ tcopy = [t \in Readers |-> NoSnap]
  /\ appended = 0
  /\ clears = 0
  /\ routes = 0
  /\ trace = [t \in Routers |-> << >>]
  /\ published = [t \in Routers |-> << >>]
  /\ resolverCalls = [t \in Routers |-> 0]
  /\ before = [t \in Routers |-> << >>]
  /\ rexc = [t \in Routers |-> NoError]
  /\ outcome = [t \in Routers |-> NoOutcome]
  /\ resolverLog = [t \in Routers |-> << >>]
  /\ listeners = << >>
  /\ invoked = << >>
  /\ given = NoSnap
  /\ storage = ts
  /\ saveTasks = << >>
  /\ saveRet = [t \in Readers |-> NotCalled]
  /\ writes = << >>
  /\ trig = [t \in Consumers |-> NotTriggered]
  /\ speech = SpeechConstructed
  /\ app = AppConstructed

\* main.py: self.state_manager = StateManager()
Init == Constructed(FALSE)

\* a StateManager given a TranscriptStorage
InitStored == Constructed(TRUE)

\* ------------------------------------------------------------------- lock
\* variant: the callers never wait for the lock
LockIgnored(t) == TRUE

\* variant: the read operations do not take the lock
LockNotTakenByReaders(t) == lock = NoOne \/ lock = t \/ t \in Readers

\* "with self._lock:" is entered when no other thread owns the RLock
LockAvailable(t) == lock = NoOne \/ lock = t

\* ------------------------------------------------ StateManager.add_listener
\* the callbacks that can be registered: a plain function that returns, a plain
\* function that raises, a plain function that calls get_state on the same
\* StateManager, and a coroutine function
ListenerKinds == {"sync_ok", "sync_raises", "sync_reads", "async"}

\* self._listeners.append(callback); the method takes no lock, so it is called
\* from the thread that makes the mutating calls, between two of them
AddListener ==
  /\ Len(listeners) < MaxListeners
  /\ \A t \in Consumers : pc[t] = "idle"
  /\ \E k \in ListenerKinds : listeners' = Append(listeners, k)
  /\ UNCHANGED <<stateVars, tasks, ntasks, lock, pc, routeVars, heldVars, appended, clears,
                 callVars, invoked, given, saveVars,
                 extVars>>

\* ------------------------------------- StateManager._notify_listeners_sync
\* variant: the first exception a listener raises leaves the loop and the call
RECURSIVE NotifyAbortsOnRaiseFrom(_, _)
NotifyAbortsOnRaiseFrom(ls, i) ==
  IF i > Len(ls) THEN [called |-> << >>, raised |-> FALSE]
  ELSE IF ls[i] = "async" THEN NotifyAbortsOnRaiseFrom(ls, i + 1)
  ELSE IF ls[i] = "sync_raises" THEN [called |-> <<i>>, raised |-> TRUE]
  ELSE LET rest == NotifyAbortsOnRaiseFrom(ls, i + 1) IN
         [called |-> <<i>> \o rest.called, raised |-> rest.raised]
NotifyAbortsOnRaise(ls) == NotifyAbortsOnRaiseFrom(ls, 1)

\* variant: a coroutine function ends the loop (break for continue)
RECURSIVE NotifyStopsAtAsyncFrom(_, _)
NotifyStopsAtAsyncFrom(ls, i) ==
  IF i > Len(ls) \/ ls[i] = "async" THEN [called |-> << >>, raised |-> FALSE]
  ELSE LET rest == NotifyStopsAtAsyncFrom(ls, i + 1) IN
         [called |-> <<i>> \o rest.called, raised |-> rest.raised]
NotifyStopsAtAsync(ls) == NotifyStopsAtAsyncFrom(ls, 1)

\* the loop from the i-th listener on: a coroutine function is skipped, any
\* other listener is called, and an exception it raises is caught and printed.
\* called lists the listeners called, in order; raised tells whether an
\* exception left the loop.
RECURSIVE NotifyFrom(_, _)
NotifyFrom(ls, i) ==
  IF i > Len(ls) THEN [called |-> << >>, raised |-> FALSE]
  ELSE IF ls[i] = "async" THEN NotifyFrom(ls, i + 1)
  ELSE LET rest == NotifyFrom(ls, i + 1) IN
         [called |-> <<i>> \o rest.called, raised |-> rest.raised]

\* for listener in self._listeners: ...
NotifyListenersSync(ls) == NotifyFrom(ls, 1)

\* variant: the locked block is never left, the caller keeps the lock
EndMutationKeepsLock(t, at, next, rel) ==
  /\ lock' = t
  /\ pc' = [pc EXCEPT ![t] = next]

\* The last statement of the locked block of a mutating call is
\* self._notify_listeners_sync(). With no listener registered the loop body
\* never runs and the block is left (the lock becomes rel); otherwise the
\* caller goes on to the loop, at position at, with the lock held.
EndMutation(t, at, next, rel) ==
  IF listeners = << >>
    THEN /\ lock' = rel
         /\ pc' = [pc EXCEPT ![t] = next]
    ELSE /\ lock' = t
         /\ pc' = [pc EXCEPT ![t] = at]

NotifyAt == {"add_notify", "upd_notify", "clr_notify"}

\* variant: threading.Lock, which its owner cannot acquire a second time
LockNotReentrant(t) == lock = NoOne

\* the "with self._lock:" of a get_state called by a listener of the notifying
\* thread: an RLock lets its owner in again
RLockCanEnter(t) == lock = NoOne \/ lock = t

\* the recursion level of the RLock after one more "with" block is left, and
\* who owns the lock at a recursion level
RLockLeave(level) == level - 1
RLockOwner(t, level) == IF level = 0 THEN NoOne ELSE t

\* the recursion level after n listeners have each entered and left the
\* "with self._lock:" of get_state, starting from level
RECURSIVE ReadsUnderLock(_, _)
ReadsUnderLock(level, n) ==
  IF n = 0 THEN level ELSE ReadsUnderLock(RLockLeave(level + 1), n - 1)

\* the loop runs: each called listener is handed self.state, the live object;
\* then the locked block is left
NotifyListeners(t) ==
  /\ pc[t] \in NotifyAt
  /\ LET n == NotifyListenersSync(listeners)
         reads == Cardinality({k \in 1..Len(n.called) : listeners[n.called[k]] = "sync_reads"})
     IN
       /\ reads > 0 => RLockCanEnter(t)
       /\ invoked' = n.called
       /\ given' = [none |-> FALSE, state |-> "self.state", raised |-> n.raised,
                    reads |-> reads]
       /\ lock' = RLockOwner(t, RLockLeave(ReadsUnderLock(1, reads)))
  /\ pc' = [pc EXCEPT ![t] = IF pc[t] = "upd_notify" THEN ret[t] ELSE "idle"]
  /\ UNCHANGED <<stateVars, tasks, ntasks, routeVars, heldVars, appended, clears,
                 callVars, listeners, saveVars,
                 extVars>>

\* a TranscriptEntry; seq numbers the appends in completion order, cid is the
\* conversation_id in force when the entry was appended, via is the statement
\* that put it in the list
NewEntry(t, via) == [seq |-> appended + 1, by |-> t, cid |-> conversation_id, via |-> via]

\* self._auto_save_threshold
AutoSaveThreshold == 5

\* how many appends a run makes
AppendLimit == IF storage THEN MaxStoredAppends ELSE MaxAppends

\* variant: the save is awaited, add_transcript_entry returns when it is over
AwaitAutoSave(len) ==
  IF storage /\ len % AutoSaveThreshold = 0
    THEN Append(saveTasks, [status |-> "saved", at |-> len])
    ELSE saveTasks

\* variant: the appends are counted, the length of the transcript is not read
ScheduleOnAppendCount(len) ==
  IF storage /\ (appended + 1) % AutoSaveThreshold = 0
    THEN Append(saveTasks, [status |-> "scheduled", at |-> len])
    ELSE saveTasks

\* if self.transcript_storage and len(self.state.transcript) % threshold == 0:
\*     asyncio.create_task(self._auto_save_transcript())
\* len is the length of the transcript after the append
ScheduleAutoSave(len) ==
  IF storage /\ len % AutoSaveThreshold = 0
    THEN Append(saveTasks, [status |-> "scheduled", at |-> len])
    ELSE saveTasks

\* variant: list.insert(0, entry)
ListInsertFront(l, e) == <<e>> \o l

\* variant: the new entry takes the place of the last one
ListAppendOverLast(l, e) == IF l = << >> THEN <<e>> ELSE [l EXCEPT ![Len(l)] = e]

\* list.append(entry)
ListAppend(l, e) == Append(l, e)

\* ------------------------------------------- StateManager.add_transcript_entry
\* One statement changes the state under the lock; then the listeners are
\* notified. In the application no transcript_storage is configured
\* (main.py:17) and no listener is registered.
AddTranscriptEntry(t) ==
  /\ t \in Consumers
  /\ pc[t] = "idle"
  /\ appended < AppendLimit
  /\ LockAvailable(t)
  /\ transcript' = ListAppend(transcript, NewEntry(t, "add_transcript_entry"))
  /\ appended' = appended + 1
  /\ saveTasks' = ScheduleAutoSave(Len(transcript'))
  /\ EndMutation(t, "add_notify", "idle", lock)
  /\ UNCHANGED <<conversation_id, current_task, task_history, tasks, ntasks,
                 routeVars, heldVars, clears,
                 callVars, notifyVars, storage,
                 extVars>>

\* ------------------------------------------ StateManager._auto_save_transcript
\* the event loop starts the task: transcript_storage.auto_save_transcript
\* reads self.state, returns None for an empty transcript and begins to write
\* the file otherwise; no lock is taken
AutoSaveStart ==
  \E k \in 1..Len(saveTasks) :
    /\ saveTasks[k].status = "scheduled"
    /\ \A j \in 1..(k - 1) : saveTasks[j].status # "scheduled"
    /\ saveTasks' = [saveTasks EXCEPT ![k].status =
                       IF transcript = << >> THEN "skipped" ELSE "writing"]
    /\ UNCHANGED <<stateVars, tasks, ntasks, lock, pc, routeVars, heldVars, appended,
                   clears, callVars, notifyVars, storage,
                 extVars>>

\* the write ends: the file is there, or the error was caught and printed
AutoSaveFinish ==
  \E k \in 1..Len(saveTasks) :
    /\ saveTasks[k].status = "writing"
    /\ \E r \in {"saved", "failed"} :
         saveTasks' = [saveTasks EXCEPT ![k].status = r]
    /\ UNCHANGED <<stateVars, tasks, ntasks, lock, pc, routeVars, heldVars, appended,
                   clears, callVars, notifyVars, storage,
                 extVars>>

\* --------------------------- main.py on_transcript_entry (producer callback)
OnTranscriptEntry(t) ==
  /\ t = Producer
  /\ pc[t] \in {"idle", "cb_lock"}
  /\ appended < MaxAppends
  /\ LockAvailable(t)
  /\ transcript' = ListAppend(transcript, NewEntry(t, "state.transcript.append"))
  /\ appended' = appended + 1
  /\ pc' = [pc EXCEPT ![t] = "idle"]
  /\ UNCHANGED <<conversation_id, current_task, task_history, tasks, ntasks, lock,
                 routeVars, heldVars, clears,
                 callVars, notifyVars, saveVars,
                 extVars>>

\* ------------------------------------------ StateManager.save_current_transcript
\* if not self.transcript_storage: return None; otherwise the first argument of
\* save_transcript, self.state.conversation_id, is read. No lock is taken.
SaveCurrentTranscript(t) ==
  /\ t \in Readers
  /\ pc[t] = "idle"
  /\ saveRet[t].calls < MaxSaves
  /\ IF storage
       THEN /\ saveRet' = [saveRet EXCEPT ![t] =
                             [kind |-> "in call", calls |-> @.calls + 1, cid |-> conversation_id]]
            /\ pc' = [pc EXCEPT ![t] = "sv_write"]
       ELSE /\ saveRet' = [saveRet EXCEPT ![t] =
                             [kind |-> "None", calls |-> @.calls + 1, cid |-> None]]
            /\ pc' = pc
  /\ UNCHANGED <<stateVars, tasks, ntasks, lock, routeVars, heldVars, appended, clears,
                 callVars, notifyVars, saveVars, writes, trig, stopVars>>

\* variant: the error of the write is not caught and reaches the caller
SaveTranscriptUncaught(t) ==
  /\ pc[t] = "sv_write"
  /\ \/ /\ writes' = Append(writes, [cid |-> saveRet[t].cid, entries |-> Len(transcript),
                                  lines |-> transcript])
        /\ saveRet' = [saveRet EXCEPT ![t].kind = "filename"]
     \/ /\ writes' = writes
        /\ saveRet' = [saveRet EXCEPT ![t].kind = "raise"]
  /\ pc' = [pc EXCEPT ![t] = "idle"]
  /\ UNCHANGED <<stateVars, tasks, ntasks, lock, routeVars, heldVars, appended, clears,
                 callVars, notifyVars, saveVars, trig, stopVars>>

\* transcript_storage.save_transcript(conversation_id, self.state.transcript):
\* the lines are built from the live list, whatever it holds, and written; the
\* filename is returned, or the error of the write is caught and None returned
SaveTranscript(t) ==
  /\ pc[t] = "sv_write"
  /\ \/ /\ writes' = Append(writes, [cid |-> saveRet[t].cid, entries |-> Len(transcript),
                                  lines |-> transcript])
        /\ saveRet' = [saveRet EXCEPT ![t].kind = "filename"]
     \/ /\ writes' = writes
        /\ saveRet' = [saveRet EXCEPT ![t].kind = "None after error"]
  /\ pc' = [pc EXCEPT ![t] = "idle"]
  /\ UNCHANGED <<stateVars, tasks, ntasks, lock, routeVars, heldVars, appended, clears,
                 callVars, notifyVars, saveVars, trig, stopVars>>

\* variant: the first statement of clear_transcript also empties task_history
ClearTranscriptAndHistory(t) ==
  /\ t \in Consumers \cup Handlers
  /\ pc[t] = "idle"
  /\ clears < MaxClears
  /\ LockAvailable(t)
  /\ lock' = t
  /\ clears' = clears + 1
  /\ transcript' = << >>
  /\ task_history' = << >>
  /\ pc' = [pc EXCEPT ![t] = "clr_id"]
  /\ UNCHANGED <<conversation_id, current_task, tasks, ntasks,
                 routeVars, heldVars, appended,
                 callVars, notifyVars, saveVars,
                 extVars>>

\* ------------------------------------------------ StateManager.clear_transcript
\* with self._lock: self.state.transcript.clear()
ClearTranscriptList(t) ==
  /\ t \in Consumers \cup Handlers
  /\ pc[t] = "idle"
  /\ clears < MaxClears
  /\ LockAvailable(t)
  /\ lock' = t
  /\ clears' = clears + 1
  /\ transcript' = << >>
  /\ pc' = [pc EXCEPT ![t] = "clr_id"]
  /\ UNCHANGED <<conversation_id, current_task, task_history, tasks, ntasks,
                 routeVars, heldVars, appended,
                 callVars, notifyVars, saveVars,
                 extVars>>

\* variant: the conversation keeps its id
ClearTranscriptKeepsId(t) ==
  /\ pc[t] = "clr_id"
  /\ conversation_id' = conversation_id
  /\ EndMutation(t, "clr_notify", "idle", NoOne)
  /\ UNCHANGED <<transcript, current_task, task_history, tasks, ntasks,
                 routeVars, heldVars, appended, clears,
                 callVars, notifyVars, saveVars,
                 extVars>>

\* self.state.conversation_id = str(uuid.uuid4()); then the listeners are
\* notified and the lock is released
ClearTranscriptNewId(t) ==
  /\ pc[t] = "clr_id"
  /\ conversation_id' = conversation_id + 1
  /\ EndMutation(t, "clr_notify", "idle", NoOne)
  /\ UNCHANGED <<transcript, current_task, task_history, tasks, ntasks,
                 routeVars, heldVars, appended, clears,
                 callVars, notifyVars, saveVars,
                 extVars>>

\* ------------------------------------------------ returned values and aliasing
\* A field that holds a list is either the live list object itself (shared) or a
\* list object of its own (val).
ListAlias(l) == [shared |-> TRUE,  val |-> << >>]
\* variant: the list itself is returned, without .copy()
ListReturnedByReference(l) == [shared |-> TRUE, val |-> << >>]

\* list.copy(): a new list object with the same elements
ListCopy(l)  == [shared |-> FALSE, val |-> l]
\* what iterating the held list yields now
ListView(h, live) == IF h.shared THEN live ELSE h.val

\* what the live state shows at this instant (recorded when a value is returned)
Seen ==
  [conversation_id |-> conversation_id,
   transcript      |-> transcript,
   current_task    |-> current_task,
   task            |-> IF current_task = None THEN NewTaskObject("rag") ELSE tasks[current_task],
   task_history    |-> task_history]

\* tasks whose update_task call, made by another thread, has started and not finished
UpdatesInProgress(t) ==
  {rtask[u] : u \in {v \in Consumers \ {t} : pc[v] \in {"upd_append", "upd_clear"}}}

\* the empty string, which no minted conversation_id is
EmptyId == 0

\* variant: the copy comes without its conversation_id
ModelCopyWithoutId(t) ==
  [none            |-> FALSE,
   conversation_id |-> EmptyId,
   transcript      |-> ListAlias(transcript),
   current_task    |-> current_task,
   task_history    |-> ListAlias(task_history),
   taken           |-> [Seen EXCEPT !.conversation_id = EmptyId],
   during          |-> UpdatesInProgress(t)]

\* AppState.model_copy(): pydantic's shallow copy; the new AppState gets the same
\* field values, so the str is its own and the two lists and the Task are the
\* live objects
ModelCopy(t) ==
  [none            |-> FALSE,
   conversation_id |-> conversation_id,
   transcript      |-> ListAlias(transcript),
   current_task    |-> current_task,
   task_history    |-> ListAlias(task_history),
   taken           |-> Seen,
   during          |-> UpdatesInProgress(t)]

SnapTranscript(s) == ListView(s.transcript, transcript)
SnapHistory(s)    == ListView(s.task_history, task_history)
SnapTask(s)       == IF s.current_task = None THEN NewTaskObject("rag") ELSE tasks[s.current_task]

\* --------------------------------------------------------- StateManager.get_state
GetState(t) ==
  /\ t \in Readers
  /\ pc[t] = "idle"
  /\ LockAvailable(t)
  /\ snap' = [snap EXCEPT ![t] = ModelCopy(t)]
  /\ tcopy' = [tcopy EXCEPT ![t] = NoSnap]
  /\ UNCHANGED <<stateVars, tasks, ntasks, lock, pc, routeVars, appended, clears,
                 callVars, notifyVars, saveVars,
                 extVars>>

\* ---------------------------------------------------- StateManager.get_transcript
GetTranscript(t) ==
  /\ t \in Readers
  /\ pc[t] = "idle"
  /\ LockAvailable(t)
  /\ tcopy' = [tcopy EXCEPT ![t] =
                 [none |-> FALSE, list |-> ListCopy(transcript), taken |-> transcript,
                  conversation_id |-> conversation_id]]
  /\ snap' = [snap EXCEPT ![t] = NoSnap]
  /\ UNCHANGED <<stateVars, tasks, ntasks, lock, pc, routeVars, appended, clears,
                 callVars, notifyVars, saveVars,
                 extVars>>

\* ------------------------------------------------------ StateManager.update_task
\* a call of update_task(task) made on the StateManager by itself, with a Task
\* in any status; the caller goes on (to "idle") when the call is over
UpdateTaskWith(t, st) ==
  /\ t \in Consumers
  /\ pc[t] = "idle"
  /\ ntasks < MaxTasks
  /\ tasks' = [tasks EXCEPT ![ntasks + 1] = [NewTaskObject("rag") EXCEPT !.status = st]]
  /\ ntasks' = ntasks + 1
  /\ rtask' = [rtask EXCEPT ![t] = ntasks + 1]
  /\ ret' = [ret EXCEPT ![t] = "idle"]
  /\ pc' = [pc EXCEPT ![t] = "upd"]
  /\ UNCHANGED <<stateVars, lock, rres, trace, published, resolverCalls, routes, before,
                 heldVars, appended, clears, callVars, notifyVars, saveVars, extVars>>

\* a caller that gives update_task a Task in one of the four statuses
UpdateTaskCall(t) == \E st \in Statuses : UpdateTaskWith(t, st)

\* Task.status is declared str: the model class accepts any text
StatusTexts == Statuses \cup {"cancelled", ""}

\* a caller that gives update_task a Task in whatever status
UpdateTaskCallAny(t) == \E st \in StatusTexts : UpdateTaskWith(t, st)

\* with self._lock: self.state.current_task = task; for a task that is not
\* terminal the notification is all that is left of the locked block
UpdateTaskSet(t) ==
  /\ pc[t] = "upd"
  /\ LockAvailable(t)
  /\ current_task' = rtask[t]
  /\ published' = [published EXCEPT ![t] = Append(@, tasks[rtask[t]].status)]
  /\ before' = [before EXCEPT ![t] = task_history]
  /\ IF tasks[rtask[t]].status \in Terminal
       THEN /\ lock' = t
            /\ pc' = [pc EXCEPT ![t] = "upd_append"]
       ELSE EndMutation(t, "upd_notify", ret[t], lock)
  /\ UNCHANGED <<conversation_id, transcript, task_history, tasks, ntasks, rtask, rres,
                 ret, trace, resolverCalls, routes, heldVars, appended, clears,
                 callVars, notifyVars, saveVars,
                 extVars>>

\* self.state.task_history.append(task)
UpdateTaskAppend(t) ==
  /\ pc[t] = "upd_append"
  /\ task_history' = Append(task_history, rtask[t])
  /\ pc' = [pc EXCEPT ![t] = "upd_clear"]
  /\ UNCHANGED <<conversation_id, transcript, current_task, tasks, ntasks, lock,
                 routeVars, heldVars, appended, clears,
                 callVars, notifyVars, saveVars,
                 extVars>>

\* self.state.current_task = None; then the listeners are notified and the
\* lock is released
UpdateTaskClear(t) ==
  /\ pc[t] = "upd_clear"
  /\ current_task' = None
  /\ EndMutation(t, "upd_notify", ret[t], NoOne)
  /\ UNCHANGED <<conversation_id, transcript, task_history, tasks, ntasks,
                 routeVars, heldVars, appended, clears,
                 callVars, notifyVars, saveVars,
                 extVars>>

\* ------------------------------------ LLMService.generate_task_from_transcript
\* what self._call_openai can do: raise (API error), or return what json.loads
\* made of the reply: something that is not a dict, or a dict in which
\* "task_type" and "issue_summary" are a string, absent or null (the dict
\* returned after a JSONDecodeError is one of these)
LLMOutcomes ==
  {[kind |-> "raise"], [kind |-> "not a dict"]} \cup
  [kind : {"dict"},
   task_type : {"rag", "agent", "other", "missing", "null"},
   issue_summary : {"text", "missing", "null"}]

\* the keyword arguments of Task(...): response.get(key, default) gives the
\* default only for an absent key; generated_plan is a str literal
TaskArguments(resp) ==
  [generated_plan |-> "str",
   task_type   |-> IF resp.task_type = "missing" THEN "agent" ELSE resp.task_type,
   description |-> IF resp.issue_summary = "missing" THEN "Customer inquiry"
                   ELSE resp.issue_summary]

\* variant: a str is accepted for generated_plan
TaskValidatesAnyPlan(args) ==
  /\ args.task_type # "null"
  /\ args.description # "null"

\* pydantic's validation in Task(...): generated_plan: List[str],
\* task_type: str, description: str
TaskValidates(args) ==
  /\ args.generated_plan = "list"
  /\ args.task_type # "null"
  /\ args.description # "null"

\* self._fallback_task()
FallbackTask ==
  [kind |-> "task", task_type |-> "rag", status |-> "pending", result |-> NoResult,
   description |-> "Unable to process conversation - manual review needed"]

\* variant: the except branch re-raises
GenerateTaskUncaught(tr, llm) ==
  IF tr = << >> THEN FallbackTask
  ELSE IF llm.kind = "dict" /\ TaskValidates(TaskArguments(llm))
    THEN [kind |-> "task", task_type |-> TaskArguments(llm).task_type, status |-> "pending",
          result |-> NoResult, description |-> TaskArguments(llm).description]
    ELSE [kind |-> "raise"]

\* generate_task_from_transcript(transcript) when _call_openai does llm: the
\* fallback for an empty transcript; otherwise the Task built from the
\* response, or the fallback when the call, response.get or Task(...) raises
GenerateTask(tr, llm) ==
  IF tr = << >> THEN FallbackTask
  ELSE IF llm.kind = "dict" /\ TaskValidates(TaskArguments(llm))
    THEN [kind |-> "task", task_type |-> TaskArguments(llm).task_type, status |-> "pending",
          result |-> NoResult, description |-> TaskArguments(llm).description]
    ELSE FallbackTask

\* ----------------------------------- CustomerSupportAIApp.process_trigger_sync
\* transcript = self.state_manager.get_state().transcript: the list of the
\* shallow copy, which is the live list
TriggerCall(t) ==
  /\ t \in Consumers
  /\ pc[t] = "idle"
  /\ trig[t].kind \in {"not called", "returned"}
  /\ trig[t].n < MaxTriggers
  /\ LockAvailable(t)
  /\ trig' = [trig EXCEPT ![t] =
                [kind |-> "in call", n |-> @.n + 1, status |-> "", result |-> "", gen |-> 0,
                 llm |-> NoReply, empty |-> FALSE]]
  /\ pc' = [pc EXCEPT ![t] = "tg_check"]
  /\ UNCHANGED <<stateVars, tasks, ntasks, lock, routeVars, heldVars, appended, clears,
                 callVars, notifyVars, saveVars, manualVars, stopVars>>

\* variant: the test of the transcript is left out
TriggerCheckLeftOut(t) ==
  /\ pc[t] = "tg_check"
  /\ trig' = trig
  /\ pc' = [pc EXCEPT ![t] = "tg_generate"]
  /\ UNCHANGED <<stateVars, tasks, ntasks, lock, routeVars, heldVars, appended, clears,
                 callVars, notifyVars, saveVars, manualVars, stopVars>>

\* if not transcript: return "No conversation to process", ""
TriggerCheck(t) ==
  /\ pc[t] = "tg_check"
  /\ IF transcript = << >>
       THEN /\ trig' = [trig EXCEPT ![t].kind = "returned",
                                    ![t].status = "No conversation to process"]
            /\ pc' = [pc EXCEPT ![t] = "idle"]
       ELSE /\ trig' = trig
            /\ pc' = [pc EXCEPT ![t] = "tg_generate"]
  /\ UNCHANGED <<stateVars, tasks, ntasks, lock, routeVars, heldVars, appended, clears,
                 callVars, notifyVars, saveVars, manualVars, stopVars>>

\* task = generate_task_from_transcript(transcript) comes back, whatever
\* _call_openai did, and route_task(task) is entered with the new Task object;
\* trig keeps the reply and whether the list was empty until the trigger returns
TriggerGenerate(t) ==
  /\ pc[t] = "tg_generate"
  /\ ntasks < MaxTasks
  /\ \E llm \in LLMOutcomes :
       /\ GenerateTask(transcript, llm).kind = "task"
       /\ tasks' = [tasks EXCEPT ![ntasks + 1] =
                      [status    |-> GenerateTask(transcript, llm).status,
                       result    |-> GenerateTask(transcript, llm).result,
                       task_type |-> GenerateTask(transcript, llm).task_type]]
       /\ trig' = [trig EXCEPT ![t].kind = "routing", ![t].gen = @ + 1,
                               ![t].llm = llm, ![t].empty = (transcript = << >>)]
  /\ ntasks' = ntasks + 1
  /\ routes' = routes
  /\ rtask' = [rtask EXCEPT ![t] = ntasks + 1]
  /\ rres' = [rres EXCEPT ![t] = NoResult]
  /\ trace' = [trace EXCEPT ![t] = <<"pending">>]
  /\ published' = [published EXCEPT ![t] = << >>]
  /\ resolverCalls' = [resolverCalls EXCEPT ![t] = 0]
  /\ rexc' = [rexc EXCEPT ![t] = NoError]
  /\ outcome' = [outcome EXCEPT ![t] = NoOutcome]
  /\ resolverLog' = [resolverLog EXCEPT ![t] = << >>]
  /\ pc' = [pc EXCEPT ![t] = "rt_processing"]
  /\ UNCHANGED <<stateVars, lock, ret, before, heldVars, appended, clears,
                 notifyVars, saveVars, manualVars, stopVars>>

\* f"Error: {str(e)}" of the except branch
TriggerErrorText(e) == IF e = "boom" THEN "Error: boom" ELSE "Error: timeout"

\* variant: the except branch lets the error go on to the caller
TriggerReturnReraises(t) ==
  /\ pc[t] = "idle"
  /\ trig[t].kind = "routing"
  /\ outcome[t] # NoOutcome
  /\ trig' = [trig EXCEPT ![t].kind = IF outcome[t].kind = "return"
                                        THEN "returned" ELSE "raised",
                          ![t].llm = NoReply,
                          ![t].empty = FALSE,
                          ![t].status = IF outcome[t].kind = "return"
                                          THEN "Task completed successfully" ELSE "",
                          ![t].result = IF outcome[t].kind = "return"
                                          THEN outcome[t].value ELSE ""]
  /\ UNCHANGED <<stateVars, tasks, ntasks, lock, pc, routeVars, heldVars, appended, clears,
                 callVars, notifyVars, saveVars, manualVars, stopVars>>

\* return "Task completed successfully", result; or, from the except branch,
\* return f"Error: {str(e)}", ""
TriggerReturn(t) ==
  /\ pc[t] = "idle"
  /\ trig[t].kind = "routing"
  /\ outcome[t] # NoOutcome
  /\ trig' = [trig EXCEPT ![t].kind = "returned",
                          ![t].llm = NoReply,
                          ![t].empty = FALSE,
                          ![t].status = IF outcome[t].kind = "return"
                                          THEN "Task completed successfully"
                                          ELSE TriggerErrorText(outcome[t].value),
                          ![t].result = IF outcome[t].kind = "return"
                                          THEN outcome[t].value ELSE ""]
  /\ UNCHANGED <<stateVars, tasks, ntasks, lock, pc, routeVars, heldVars, appended, clears,
                 callVars, notifyVars, saveVars, manualVars, stopVars>>

\* --------------------------------------------------------- Orchestrator.route_task
\* main.py process_trigger_sync: a Task is built and handed to route_task
RouteTaskEnter(t, limit) ==
  /\ t \in Routers
  /\ pc[t] = "idle"
  /\ ntasks < limit
  /\ \E ty \in TaskTypes :
       tasks' = [tasks EXCEPT ![ntasks + 1] = NewTaskObject(ty)]
  /\ ntasks' = ntasks + 1
  /\ routes' = routes
  /\ rtask' = [rtask EXCEPT ![t] = ntasks + 1]
  /\ rres' = [rres EXCEPT ![t] = NoResult]
  /\ trace' = [trace EXCEPT ![t] = <<"pending">>]
  /\ published' = [published EXCEPT ![t] = << >>]
  /\ resolverCalls' = [resolverCalls EXCEPT ![t] = 0]
  /\ rexc' = [rexc EXCEPT ![t] = NoError]
  /\ outcome' = [outcome EXCEPT ![t] = NoOutcome]
  /\ resolverLog' = [resolverLog EXCEPT ![t] = << >>]
  /\ pc' = [pc EXCEPT ![t] = "rt_processing"]
  /\ UNCHANGED <<stateVars, lock, ret, before, heldVars, appended, clears,
                 notifyVars, saveVars,
                 extVars>>

\* the application's one trigger handler routes a new Task
RouteTaskCall(t) == t \in Consumers /\ RouteTaskEnter(t, MaxTasks)

\* a UI thread, of two that handle triggers side by side, routes a new Task
RouteTaskOverlapping(t) == RouteTaskEnter(t, MaxOverlap)

\* route_task is called again with a Task object that was routed before
RouteTaskAgain(t) ==
  /\ t \in Consumers
  /\ pc[t] = "idle"
  /\ routes < MaxReroutes
  /\ \E k \in 1..ntasks :
       /\ rtask' = [rtask EXCEPT ![t] = k]
       /\ trace' = [trace EXCEPT ![t] = <<tasks[k].status>>]
  /\ routes' = routes + 1
  /\ rres' = [rres EXCEPT ![t] = NoResult]
  /\ published' = [published EXCEPT ![t] = << >>]
  /\ resolverCalls' = [resolverCalls EXCEPT ![t] = 0]
  /\ rexc' = [rexc EXCEPT ![t] = NoError]
  /\ outcome' = [outcome EXCEPT ![t] = NoOutcome]
  /\ resolverLog' = [resolverLog EXCEPT ![t] = << >>]
  /\ pc' = [pc EXCEPT ![t] = "rt_processing"]
  /\ UNCHANGED <<stateVars, tasks, ntasks, lock, ret, before, heldVars, appended, clears,
                 notifyVars, saveVars,
                 extVars>>

\* task.status = <st>, an assignment to the shared Task object outside the lock
SetStatus(t, st) ==
  /\ tasks' = [tasks EXCEPT ![rtask[t]].status = st]
  /\ trace' = [trace EXCEPT ![t] = Append(@, st)]

\* variant: update_task is called without the status having been set
RouteSkipProcessing(t) ==
  /\ pc[t] = "rt_processing"
  /\ ret' = [ret EXCEPT ![t] = "rt_resolve"]
  /\ pc' = [pc EXCEPT ![t] = "upd"]
  /\ UNCHANGED <<stateVars, tasks, ntasks, lock, rtask, rres, trace, published,
                 resolverCalls, routes, before, heldVars, appended, clears,
                 callVars, notifyVars, saveVars,
                 extVars>>

\* task.status = "processing"; then await update_task(task)
RouteSetProcessing(t) ==
  /\ pc[t] = "rt_processing"
  /\ SetStatus(t, "processing")
  /\ ret' = [ret EXCEPT ![t] = "rt_resolve"]
  /\ pc' = [pc EXCEPT ![t] = "upd"]
  /\ UNCHANGED <<stateVars, ntasks, lock, rtask, rres, published, resolverCalls, routes,
                 before, heldVars, appended, clears,
                 callVars, notifyVars, saveVars,
                 extVars>>

\* variant: every task type is dispatched to a resolver
ResolverCalledAlways(ty) == TRUE

\* what the resolver of a task type can do: the values it can return, and
\* whether it can raise. rag_service.search re-raises the API error;
\* ai_agent.execute_task catches every Exception and returns a text.
AgentError == "Error executing task: boom"

\* AIAgent.execute_task: self.agent.run() returns a history or raises; the
\* analysis call returns message.content or raises
AgentRuns == {"history", "raise"}
AnalysisReplies == ResolverValues \cup {"raise"}

\* variant: no except branch, the error leaves execute_task
ExecuteTaskUncaught(run, reply) ==
  IF run = "raise" \/ reply = "raise"
    THEN [kind |-> "raise", value |-> "boom"]
    ELSE [kind |-> "return", value |-> reply]

\* try: ... return response.choices[0].message.content
\* except Exception as e: return f"Error executing task: {str(e)}"
ExecuteTask(run, reply) ==
  IF run = "raise" \/ reply = "raise"
    THEN [kind |-> "return", value |-> AgentError]
    ELSE [kind |-> "return", value |-> reply]

\* everything a call of execute_task can end with
AgentOutcomes == {ExecuteTask(run, reply) : run \in AgentRuns, reply \in AnalysisReplies}

ResolverReturns(ty) ==
  CASE ty = "rag"   -> ResolverValues
    [] ty = "agent" -> {o.value : o \in {x \in AgentOutcomes : x.kind = "return"}}
    [] OTHER        -> {UnknownResult}
ResolverRaises(ty) ==
  \/ ty = "rag"
  \/ ty = "agent" /\ \E o \in AgentOutcomes : o.kind = "raise"
ResolverCalled(ty) == ty \in {"rag", "agent"}

\* the call the dispatch makes for a task type: which resolver, with which argument
ResolverCall(ty) ==
  CASE ty = "rag"   -> <<[resolver |-> "rag_service.search", arg |-> "task.description"]>>
    [] ty = "agent" -> <<[resolver |-> "ai_agent.execute_task", arg |-> "task"]>>
    [] OTHER        -> << >>

\* variant: a failed resolver call is made a second time before the error is handled
RouteResolveWithRetry(t) ==
  /\ pc[t] = "rt_resolve"
  /\ LET ty == tasks[rtask[t]].task_type IN
       /\ \/ \E r \in ResolverReturns(ty) :
               /\ rres' = [rres EXCEPT ![t] = r]
               /\ rexc' = rexc
               /\ resolverCalls' = [resolverCalls EXCEPT ![t] = @ + (IF ResolverCalled(ty) THEN 1 ELSE 0)]
               /\ resolverLog' = [resolverLog EXCEPT ![t] = @ \o ResolverCall(ty)]
               /\ pc' = [pc EXCEPT ![t] = "rt_completed"]
          \/ /\ ResolverRaises(ty)
             /\ \E e \in Errors : rexc' = [rexc EXCEPT ![t] = e]
             /\ rres' = rres
             /\ resolverCalls' = [resolverCalls EXCEPT ![t] = @ + 2]
             /\ resolverLog' = [resolverLog EXCEPT ![t] = @ \o ResolverCall(ty) \o ResolverCall(ty)]
             /\ pc' = [pc EXCEPT ![t] = "rt_failed"]
  /\ UNCHANGED <<stateVars, tasks, ntasks, lock, rtask, ret, trace, published, routes,
                 before, heldVars, appended, clears, outcome, notifyVars, saveVars,
                 extVars>>

\* the dispatch inside try: one resolver call, which returns or raises
RouteResolve(t) ==
  /\ pc[t] = "rt_resolve"
  /\ LET ty == tasks[rtask[t]].task_type IN
       /\ resolverCalls' = [resolverCalls EXCEPT ![t] = @ + (IF ResolverCalled(ty) THEN 1 ELSE 0)]
       /\ resolverLog' = [resolverLog EXCEPT ![t] = @ \o ResolverCall(ty)]
       /\ \/ \E r \in ResolverReturns(ty) :
               /\ rres' = [rres EXCEPT ![t] = r]
               /\ rexc' = rexc
               /\ pc' = [pc EXCEPT ![t] = "rt_completed"]
          \/ /\ ResolverRaises(ty)
             /\ \E e \in Errors : rexc' = [rexc EXCEPT ![t] = e]
             /\ rres' = rres
             /\ pc' = [pc EXCEPT ![t] = "rt_failed"]
  /\ UNCHANGED <<stateVars, tasks, ntasks, lock, rtask, ret, trace, published, routes,
                 before, heldVars, appended, clears, outcome, notifyVars, saveVars,
                 extVars>>

\* task.status = "completed"
RouteSetCompleted(t) ==
  /\ pc[t] = "rt_completed"
  /\ SetStatus(t, "completed")
  /\ pc' = [pc EXCEPT ![t] = "rt_result"]
  /\ UNCHANGED <<stateVars, ntasks, lock, rtask, rres, ret, published, resolverCalls,
                 routes, before, heldVars, appended, clears,
                 callVars, notifyVars, saveVars,
                 extVars>>

\* variant: the result is stored as text, str(result)
RouteSetResultAsText(t) ==
  /\ pc[t] = "rt_result"
  /\ tasks' = [tasks EXCEPT ![rtask[t]].result = IF rres[t] = NoResult THEN "" ELSE rres[t]]
  /\ ret' = [ret EXCEPT ![t] = "rt_return"]
  /\ pc' = [pc EXCEPT ![t] = "upd"]
  /\ UNCHANGED <<stateVars, ntasks, lock, rtask, rres, trace, published, resolverCalls,
                 routes, before, heldVars, appended, clears,
                 callVars, notifyVars, saveVars,
                 extVars>>

\* task.result = result; then await update_task(task)
RouteSetResult(t) ==
  /\ pc[t] = "rt_result"
  /\ tasks' = [tasks EXCEPT ![rtask[t]].result = rres[t]]
  /\ ret' = [ret EXCEPT ![t] = "rt_return"]
  /\ pc' = [pc EXCEPT ![t] = "upd"]
  /\ UNCHANGED <<stateVars, ntasks, lock, rtask, rres, trace, published, resolverCalls,
                 routes, before, heldVars, appended, clears,
                 callVars, notifyVars, saveVars,
                 extVars>>

\* return result
RouteReturn(t) ==
  /\ pc[t] = "rt_return"
  /\ outcome' = [outcome EXCEPT ![t] = [kind |-> "return", value |-> rres[t]]]
  /\ pc' = [pc EXCEPT ![t] = "idle"]
  /\ UNCHANGED <<stateVars, tasks, ntasks, lock, routeVars, heldVars, appended, clears,
                 rexc, resolverLog, notifyVars, saveVars,
                 extVars>>

\* except Exception: task.status = "failed"
RouteSetFailed(t) ==
  /\ pc[t] = "rt_failed"
  /\ SetStatus(t, "failed")
  /\ pc' = [pc EXCEPT ![t] = "rt_error"]
  /\ UNCHANGED <<stateVars, ntasks, lock, rtask, rres, ret, published, resolverCalls,
                 routes, before, heldVars, appended, clears,
                 callVars, notifyVars, saveVars,
                 extVars>>

\* f"Error: {str(e)}"
ErrorText(e) == IF e = "boom" THEN ErrorResult ELSE "Error: timeout"

\* variant: the except branch raises without publishing the failure
RouteSetErrorUnpublished(t) ==
  /\ pc[t] = "rt_error"
  /\ tasks' = [tasks EXCEPT ![rtask[t]].result = ErrorText(rexc[t])]
  /\ ret' = [ret EXCEPT ![t] = "rt_raise"]
  /\ pc' = [pc EXCEPT ![t] = "rt_raise"]
  /\ UNCHANGED <<stateVars, ntasks, lock, rtask, rres, trace, published, resolverCalls,
                 routes, before, heldVars, appended, clears,
                 callVars, notifyVars, saveVars,
                 extVars>>

\* task.result = f"Error: {str(e)}"; then await update_task(task)
RouteSetError(t) ==
  /\ pc[t] = "rt_error"
  /\ tasks' = [tasks EXCEPT ![rtask[t]].result = ErrorText(rexc[t])]
  /\ ret' = [ret EXCEPT ![t] = "rt_raise"]
  /\ pc' = [pc EXCEPT ![t] = "upd"]
  /\ UNCHANGED <<stateVars, ntasks, lock, rtask, rres, trace, published, resolverCalls,
                 routes, before, heldVars, appended, clears,
                 callVars, notifyVars, saveVars,
                 extVars>>

\* variant: the failure is swallowed and the error text is returned
RouteReturnsError(t) ==
  /\ pc[t] = "rt_raise"
  /\ outcome' = [outcome EXCEPT ![t] = [kind |-> "return", value |-> tasks[rtask[t]].result]]
  /\ pc' = [pc EXCEPT ![t] = "idle"]
  /\ UNCHANGED <<stateVars, tasks, ntasks, lock, routeVars, heldVars, appended, clears,
                 rexc, resolverLog, notifyVars, saveVars,
                 extVars>>

\* raise: the exception being handled goes on to the caller
RouteRaise(t) ==
  /\ pc[t] = "rt_raise"
  /\ outcome' = [outcome EXCEPT ![t] = [kind |-> "raise", value |-> rexc[t]]]
  /\ pc' = [pc EXCEPT ![t] = "idle"]
  /\ UNCHANGED <<stateVars, tasks, ntasks, lock, routeVars, heldVars, appended, clears,
                 rexc, resolverLog, notifyVars, saveVars,
                 extVars>>

\* ------------------------------ SpeechToTextService / CustomerSupportAIApp.stop
\* start_background_services: self.is_running = True and the background thread
\* is started; it makes the event loop and runs the transcription in it, which
\* sets is_running and connects the transcriber. time.sleep(2) lets it do so
\* before the caller goes on.
StartBackgroundServices ==
  /\ app.background_loop = "None"
  /\ \A t \in Stoppers : pc[t] = "idle"
  /\ app.stops = 0
  /\ app' = [app EXCEPT !.is_running = TRUE, !.background_loop = "running"]
  /\ speech' = [speech EXCEPT !.is_running = TRUE, !.transcriber = "open"]
  /\ UNCHANGED <<stateVars, tasks, ntasks, lock, pc, routeVars, heldVars, appended, clears,
                 callVars, notifyVars, saveVars, manualVars, trig>>

\* what the transcriber delivers: a final transcript with a text, a partial
\* transcript with a text, or a transcript of either class with no text
TranscriptKinds == {"final", "partial", "no text"}

\* _handle_transcript, called by the open transcriber on its own thread:
\* "if not transcript.text: return"; a RealtimeFinalTranscript is made a
\* TranscriptEntry and handed to the callback, which is now at its first
\* statement; anything else is returned from
HandleTranscriptOf(t, kind) ==
  /\ t = Producer
  /\ pc[t] = "idle"
  /\ speech.transcriber = "open"
  /\ IF kind = "final"
       THEN /\ appended < MaxAppends
            /\ speech.handed < MaxAppends
            /\ speech' = [speech EXCEPT !.handed = @ + 1]
            /\ pc' = [pc EXCEPT ![t] = "cb_lock"]
       ELSE /\ speech.dropped < MaxDropped
            /\ speech' = [speech EXCEPT !.dropped = @ + 1]
            /\ pc' = pc
  /\ UNCHANGED <<stateVars, tasks, ntasks, lock, routeVars, heldVars, appended, clears,
                 callVars, notifyVars, saveVars, manualVars, trig, app>>

\* a final transcript with a text is delivered
HandleTranscript(t) == HandleTranscriptOf(t, "final")

\* variant: the error of the callback ends the transcriber's thread
CallbackFailsUncaught(t) ==
  /\ t = Producer
  /\ pc[t] = "cb_lock"
  /\ speech.failed < MaxFailures
  /\ speech' = [speech EXCEPT !.failed = @ + 1]
  /\ pc' = [pc EXCEPT ![t] = "cb_raised"]
  /\ UNCHANGED <<stateVars, tasks, ntasks, lock, routeVars, heldVars, appended, clears,
                 callVars, notifyVars, saveVars, manualVars, trig, app>>

\* the callback raises before its append (the print of its first line, or one
\* inside the try block, fails); the error is caught and logged, by the
\* callback or by _handle_transcript, and the transcriber's thread goes on
CallbackFails(t) ==
  /\ t = Producer
  /\ pc[t] = "cb_lock"
  /\ speech.failed < MaxFailures
  /\ speech' = [speech EXCEPT !.failed = @ + 1]
  /\ pc' = [pc EXCEPT ![t] = "idle"]
  /\ UNCHANGED <<stateVars, tasks, ntasks, lock, routeVars, heldVars, appended, clears,
                 callVars, notifyVars, saveVars, manualVars, trig, app>>

\* run_background_loop: the transcription ends once is_running is False (or
\* the scheduled loop.stop ends run_until_complete with an error, which is
\* caught), and the finally block closes the loop
RunBackgroundLoopEnds ==
  /\ app.background_loop = "running"
  /\ ~speech.is_running \/ app.stop_scheduled
  /\ app' = [app EXCEPT !.background_loop = "closed"]
  /\ UNCHANGED <<stateVars, tasks, ntasks, lock, pc, routeVars, heldVars, appended, clears,
                 callVars, notifyVars, saveVars, manualVars, trig, speech>>

\* stop: self.is_running = False
StopCall(t) ==
  /\ t \in Stoppers
  /\ pc[t] = "idle"
  /\ app.stops < MaxStops
  /\ app' = [app EXCEPT !.is_running = FALSE]
  /\ pc' = [pc EXCEPT ![t] = "stop_speech"]
  /\ UNCHANGED <<stateVars, tasks, ntasks, lock, routeVars, heldVars, appended, clears,
                 callVars, notifyVars, saveVars, manualVars, trig, speech>>

\* stop_transcription: is_running = False; the transcriber, if there is one, is
\* closed and PyAudio is terminated, an error of either being caught and logged
StopTranscription(t) ==
  /\ pc[t] = "stop_speech"
  /\ speech' = [speech EXCEPT
                  !.is_running = FALSE,
                  !.transcriber = IF speech.transcriber = "None" THEN "None" ELSE "closed",
                  !.audio = "terminated"]
  /\ pc' = [pc EXCEPT ![t] = "stop_check"]
  /\ UNCHANGED <<stateVars, tasks, ntasks, lock, routeVars, heldVars, appended, clears,
                 callVars, notifyVars, saveVars, manualVars, trig, app>>

\* the call of stop is over: raised tells how
StopReturns(raised) ==
  [app EXCEPT !.stops = @ + 1,
              !.raised = @ \/ raised,
              !.first = IF app.stops = 0 THEN speech ELSE @]

\* if self.background_loop and not self.background_loop.is_closed():
StopCheckLoop(t) ==
  /\ pc[t] = "stop_check"
  /\ IF app.background_loop = "running"
       THEN /\ pc' = [pc EXCEPT ![t] = "stop_call"]
            /\ app' = app
       ELSE /\ pc' = [pc EXCEPT ![t] = "idle"]
            /\ app' = StopReturns(FALSE)
  /\ UNCHANGED <<stateVars, tasks, ntasks, lock, routeVars, heldVars, appended, clears,
                 callVars, notifyVars, saveVars, manualVars, trig, speech>>

\* self.background_loop.call_soon_threadsafe(self.background_loop.stop): a loop
\* that has been closed since the test raises RuntimeError("Event loop is
\* closed"), which stop does not catch
StopLoop(t) ==
  /\ pc[t] = "stop_call"
  /\ pc' = [pc EXCEPT ![t] = "idle"]
  /\ IF app.background_loop = "closed"
       THEN app' = StopReturns(TRUE)
       ELSE app' = [StopReturns(FALSE) EXCEPT !.stop_scheduled = TRUE]
  /\ UNCHANGED <<stateVars, tasks, ntasks, lock, routeVars, heldVars, appended, clears,
                 callVars, notifyVars, saveVars, manualVars, trig, speech>>

\* ------------------------------------------------------------- specifications
TranscriptStep(t) ==
  \/ AddTranscriptEntry(t)
  \/ OnTranscriptEntry(t)
  \/ ClearTranscriptList(t)
  \/ ClearTranscriptNewId(t)

ReadStep(t) ==
  \/ GetState(t)
  \/ GetTranscript(t)

RouteStep(t) ==
  \/ RouteSetProcessing(t)
  \/ UpdateTaskSet(t)
  \/ UpdateTaskAppend(t)
  \/ UpdateTaskClear(t)
  \/ RouteResolve(t)
  \/ RouteSetCompleted(t)
  \/ RouteSetResult(t)
  \/ RouteReturn(t)
  \/ RouteSetFailed(t)
  \/ RouteSetError(t)
  \/ RouteRaise(t)

\* the application: every routed Task is a new object
Next ==
  \E t \in Threads :
    \/ TranscriptStep(t)
    \/ ReadStep(t)
    \/ RouteTaskCall(t)
    \/ RouteStep(t)

Spec == Init /\ [][Next]_vars

\* the Orchestrator and the task side of the StateManager, used by a caller
\* that may route a Task object more than once
NextReroute ==
  \E t \in Threads :
    \/ GetState(t)
    \/ RouteTaskCall(t)
    \/ RouteTaskAgain(t)
    \/ RouteStep(t)

SpecReroute == Init /\ [][NextReroute]_vars

\* the StateManager used with listeners registered (the application registers
\* none): the three mutating calls, each ending in the notification loop
NextListeners ==
  \/ AddListener
  \/ \E t \in Consumers :
       \/ AddTranscriptEntry(t)
       \/ ClearTranscriptList(t)
       \/ ClearTranscriptNewId(t)
       \/ NotifyListeners(t)
       \/ RouteTaskCall(t)
       \/ RouteStep(t)

SpecListeners == Init /\ [][NextListeners]_vars

\* the StateManager used with a TranscriptStorage (the application passes none)
NextAutoSave ==
  \/ AutoSaveStart
  \/ AutoSaveFinish
  \/ \E t \in Consumers :
       \/ AddTranscriptEntry(t)
       \/ ClearTranscriptList(t)
       \/ ClearTranscriptNewId(t)

SpecAutoSave == InitStored /\ [][NextAutoSave]_vars

\* a StateManager with or without a TranscriptStorage
InitEither == \E ts \in BOOLEAN : Constructed(ts)

\* the StateManager whose transcript is saved on request, by the handler of the
\* Save button, and by the auto-save
NextSave ==
  \/ AutoSaveStart
  \/ AutoSaveFinish
  \/ \E t \in Threads :
       \/ AddTranscriptEntry(t)
       \/ ClearTranscriptList(t)
       \/ ClearTranscriptNewId(t)
       \/ SaveCurrentTranscript(t)
       \/ SaveTranscript(t)

SpecSave == InitEither /\ [][NextSave]_vars

\* the application driven by its buttons: the producer appends, Clear empties
\* the transcript, and process_trigger_sync generates a Task and routes it
NextTrigger ==
  \/ OnTranscriptEntry(Producer)
  \/ \E t \in Handlers :
       \/ ClearTranscriptList(t)
       \/ ClearTranscriptNewId(t)
  \/ \E t \in Consumers :
       \/ TriggerCall(t)
       \/ TriggerCheck(t)
       \/ TriggerGenerate(t)
       \/ RouteStep(t)
       \/ TriggerReturn(t)

SpecTrigger == Init /\ [][NextTrigger]_vars

StopStep(t) ==
  \/ StopCall(t)
  \/ StopTranscription(t)
  \/ StopCheckLoop(t)
  \/ StopLoop(t)

\* the application started and stopped: the transcriber's thread appends while
\* the main thread calls stop
NextStop ==
  \/ StartBackgroundServices
  \/ RunBackgroundLoopEnds
  \/ HandleTranscript(Producer)
  \/ OnTranscriptEntry(Producer)
  \/ \E t \in Stoppers : StopStep(t)

SpecStop == Init /\ [][NextStop]_vars

\* the StateManager between the started application's threads: the
\* transcriber's thread appends, the UI clears and calls update_task, and the
\* main thread calls stop; a snapshot read is one step that needs the lock
Started == app.background_loop # "None"

NextLive ==
  \/ StartBackgroundServices
  \/ RunBackgroundLoopEnds
  \/ HandleTranscript(Producer)
  \/ OnTranscriptEntry(Producer) /\ pc[Producer] = "cb_lock"
  \/ \E t \in Handlers :
       \/ Started /\ ClearTranscriptList(t)
       \/ ClearTranscriptNewId(t)
  \/ \E t \in Consumers :
       \/ Started /\ UpdateTaskCall(t)
       \/ UpdateTaskSet(t)
       \/ UpdateTaskAppend(t)
       \/ UpdateTaskClear(t)
  \/ \E t \in Stoppers : StopStep(t)

\* fair scheduling: a thread that can take its next step does so, and the lock
\* is given to a thread that keeps asking for it
Fairness ==
  /\ SF_vars(OnTranscriptEntry(Producer))
  /\ \A t \in Consumers :
       SF_vars(UpdateTaskSet(t)) /\ WF_vars(UpdateTaskAppend(t) \/ UpdateTaskClear(t))
  /\ \A t \in Handlers : WF_vars(ClearTranscriptNewId(t))
  /\ \A t \in Stoppers : WF_vars(StopStep(t))

SpecLiveSafe == Init /\ [][NextLive]_vars
SpecLive == SpecLiveSafe /\ Fairness

\* the StateManager given Tasks by a caller that does not keep to the four
\* statuses, beside the producer and the Clear handler
NextUpdate ==
  \/ OnTranscriptEntry(Producer)
  \/ \E t \in Handlers :
       \/ ClearTranscriptList(t)
       \/ ClearTranscriptNewId(t)
  \/ \E t \in Consumers :
       \/ UpdateTaskCallAny(t)
       \/ UpdateTaskSet(t)
       \/ UpdateTaskAppend(t)
       \/ UpdateTaskClear(t)

SpecUpdate == Init /\ [][NextUpdate]_vars

\* clear_transcript called by the UI with listeners registered, beside the
\* producer's appends and the poller's snapshot reads
NextClear ==
  \/ AddListener
  \/ OnTranscriptEntry(Producer)
  \/ \E t \in Readers : GetState(t)
  \/ \E t \in Consumers :
       \/ ClearTranscriptList(t)
       \/ ClearTranscriptNewId(t)
       \/ NotifyListeners(t)

SpecClear == Init /\ [][NextClear]_vars

\* the producer path: the transcriber delivers transcripts of every kind, the
\* callback appends or fails, the UI reads and clears
NextProducer ==
  \/ StartBackgroundServices
  \/ \E kind \in TranscriptKinds : HandleTranscriptOf(Producer, kind)
  \/ OnTranscriptEntry(Producer) /\ pc[Producer] = "cb_lock"
  \/ CallbackFails(Producer)
  \/ \E t \in Readers : ReadStep(t)
  \/ \E t \in Handlers :
       \/ ClearTranscriptList(t)
       \/ ClearTranscriptNewId(t)

SpecProducer == Init /\ [][NextProducer]_vars

\* two triggers handled side by side: each UI thread routes its own Task
NextOverlap ==
  \E t \in Routers :
    \/ RouteTaskOverlapping(t)
    \/ RouteStep(t)

SpecOverlap == Init /\ [][NextOverlap]_vars

\* ===================================================================== claims
IsPrefix(a, b) == Len(a) <= Len(b) /\ \A i \in 1..Len(a) : a[i] = b[i]
InAppendOrder(l) == \A i, j \in 1..Len(l) : i < j => l[i].seq < l[j].seq
OneConversation(l) == \A i, j \in 1..Len(l) : l[i].cid = l[j].cid
HeldLists ==
  {transcript}
    \cup {SnapTranscript(snap[r]) : r \in {x \in Readers : snap[x] # NoSnap}}
    \cup {ListView(tcopy[r].list, transcript) : r \in {x \in Readers : tcopy[x] # NoSnap}}

\* C1: the live transcript and every value returned by get_transcript or
\* get_state list the entries in the order in which their appends completed,
\* whichever of the two callers appended them; strictly increasing completion
\* numbers also exclude a duplicated entry.
C1_AppendOrder == \A l \in HeldLists : InAppendOrder(l)

\* C1 witness: a returned transcript holds two entries appended by two
\* different callers.
C1_Witness ==
  \E r \in Readers :
    /\ tcopy[r] # NoSnap
    /\ Len(tcopy[r].taken) = 2
    /\ tcopy[r].taken[1].by # tcopy[r].taken[2].by

\* C2: the live state pairs its conversation_id only with entries appended
\* under that id; no transcript, live or returned, mixes entries of two
\* conversation_ids; and a returned state only shows entries appended after its
\* id was minted.
C2_ClearAtomicity ==
  /\ \A i \in 1..Len(transcript) : transcript[i].cid = conversation_id
  /\ \A l \in HeldLists : OneConversation(l)
  /\ \A r \in Readers :
       /\ snap[r] # NoSnap =>
            \A i \in 1..Len(SnapTranscript(snap[r])) :
              SnapTranscript(snap[r])[i].cid >= snap[r].conversation_id
       /\ tcopy[r] # NoSnap =>
            \A i \in 1..Len(tcopy[r].taken) :
              tcopy[r].taken[i].cid = tcopy[r].conversation_id

\* C2 witness: an entry was appended before a clear and another after it.
C2_Witness ==
  /\ conversation_id > 1
  /\ Len(transcript) >= 1
  /\ appended > Len(transcript)

\* C3 (as claimed): what a value returned by get_state shows stays what it
\* showed when it was returned.
C3_SnapshotIndependent ==
  \A r \in Readers :
    snap[r] # NoSnap =>
      /\ SnapTranscript(snap[r]) = snap[r].taken.transcript
      /\ SnapHistory(snap[r]) = snap[r].taken.task_history
      /\ SnapTask(snap[r]) = snap[r].taken.task

\* C4: the list returned by get_transcript keeps the length and the entries it
\* had when it was returned, whatever is appended or cleared afterwards.
C4_TranscriptCopyIndependent ==
  \A r \in Readers :
    tcopy[r] # NoSnap => ListView(tcopy[r].list, transcript) = tcopy[r].taken

\* C4 witness: a returned list is held while the live transcript has changed.
C4_Witness ==
  \E r \in Readers :
    /\ tcopy[r] # NoSnap
    /\ Len(tcopy[r].taken) >= 1
    /\ transcript # tcopy[r].taken

\* C5: a route_task call entered with a pending task takes the task through
\* pending, processing and one terminal status, in that order; processing has
\* been published by update_task when the resolver is called; and when the
\* call has ended exactly one terminal status has been set.
AfterFirstUpdate == {"rt_resolve", "rt_completed", "rt_result", "rt_failed", "rt_error",
                     "rt_return", "rt_raise"}
C5_Lifecycle ==
  \A t \in Consumers :
    (trace[t] # << >> /\ trace[t][1] = "pending") =>
      /\ \E last \in Terminal : IsPrefix(trace[t], <<"pending", "processing", last>>)
      /\ pc[t] \in AfterFirstUpdate =>
           /\ Len(trace[t]) >= 2
           /\ published[t] # << >>
           /\ published[t][1] = "processing"
      /\ pc[t] \in {"rt_return", "rt_raise", "idle"} =>
           /\ Len(trace[t]) = 3
           /\ published[t] = <<"processing", trace[t][3]>>

\* C5 witness: a call whose resolver raised has ended.
C5_Witness ==
  \E t \in Consumers :
    pc[t] = "idle" /\ trace[t] = <<"pending", "processing", "failed">>

\* C6 (as claimed): a task has a result exactly when its status is terminal.
C6_ResultIffTerminal ==
  \A k \in 1..ntasks :
    (tasks[k].result # NoResult) <=> (tasks[k].status \in Terminal)

\* C7 (as claimed): no step takes a completed or failed task back to pending or
\* processing.
C7_StatusMonotonic ==
  [][\A k \in TaskIds :
       tasks[k].status \in Terminal => tasks'[k].status \in Terminal]_vars

\* C8: when update_task ends for a completed or failed task, current_task is
\* None and task_history is what it was when the call began plus that task at
\* the end; and no get_state made while such an update is between its
\* statements returns a state with the task in both places or in neither.
InUpdate == {"upd", "upd_append", "upd_clear"}
C8_TerminalUpdateAtomic ==
  /\ [][\A t \in Consumers :
          (/\ pc[t] \in InUpdate
           /\ pc'[t] \notin InUpdate
           /\ tasks[rtask[t]].status \in Terminal)
          => /\ current_task' = None
             /\ task_history' = Append(before'[t], rtask[t])]_vars
  /\ [](\A r \in Readers :
          snap[r] # NoSnap =>
            \A k \in snap[r].during :
              (snap[r].taken.current_task = k)
                # (k \in Range(snap[r].taken.task_history)))

\* C8 witness: a get_state made after a terminal update returned a state with
\* no current task and the task in the history.
C8_Witness ==
  \E r \in Readers :
    /\ snap[r] # NoSnap
    /\ snap[r].taken.current_task = None
    /\ Len(snap[r].taken.task_history) = 1
    /\ snap[r].during = {}

\* C9 (as claimed): a task is in task_history exactly when its status is
\* terminal, and current_task never has a terminal status.
C9_HistoryIffTerminal ==
  /\ \A k \in 1..ntasks :
       (k \in Range(task_history)) <=> (tasks[k].status \in Terminal)
  /\ current_task # None => tasks[current_task].status \notin Terminal

\* C10 (as claimed): a reader sees a terminal status for the task of a state it
\* was given only when the update_task that publishes that status has ended.
TerminalPublished(k) ==
  /\ k \in Range(task_history)
  /\ \A t \in Consumers : rtask[t] = k => pc[t] \notin InUpdate
C10_StatusInOrder ==
  \A r \in Readers :
    (snap[r] # NoSnap /\ snap[r].current_task # None) =>
      (SnapTask(snap[r]).status \in Terminal => TerminalPublished(snap[r].current_task))

\* what it is for a result text to contain an error's message
Contains(text, msg) ==
  <<text, msg>> \in {<<"Error: boom", "boom">>, <<"Error: timeout", "timeout">>,
                     <<"Error executing task: boom", "boom">>}
Ended(t) == pc[t] = "idle" /\ outcome[t] # NoOutcome
Raised(t) == Ended(t) /\ outcome[t].kind = "raise"
Returned(t) == Ended(t) /\ outcome[t].kind = "return"

\* C11: when the resolver raises, route_task leaves the task failed with a
\* result that contains the error's message, the failure has been published by
\* update_task (the task is appended to task_history and current_task is
\* cleared), and the caller of route_task gets the same error.
C11_FailurePublishedAndReraised ==
  \A t \in Consumers :
    /\ rexc[t] # NoError /\ pc[t] = "idle" => Raised(t)
    /\ Raised(t) =>
         /\ rexc[t] \in Errors
         /\ outcome[t].value = rexc[t]
         /\ tasks[rtask[t]].status = "failed"
         /\ Contains(tasks[rtask[t]].result, rexc[t])
         /\ published[t][Len(published[t])] = "failed"
         /\ task_history = Append(before[t], rtask[t])
         /\ current_task = None

\* C11 witness: the caller has got the error "timeout" back from route_task.
C11_Witness ==
  \E t \in Consumers : Raised(t) /\ outcome[t].value = "timeout"

\* C12: when the resolver returns, route_task leaves the task completed with
\* the returned value as result, has published it by update_task, and returns
\* the same value; task_history has grown by exactly one and current_task is
\* None.
C12_SuccessPublishedAndReturned ==
  \A t \in Consumers :
    (Returned(t) /\ resolverLog[t] # << >>) =>
      /\ tasks[rtask[t]].status = "completed"
      /\ tasks[rtask[t]].result = rres[t]
      /\ outcome[t].value = rres[t]
      /\ published[t][Len(published[t])] = "completed"
      /\ task_history = Append(before[t], rtask[t])
      /\ Len(task_history) = Len(before[t]) + 1
      /\ current_task = None

\* C12 witness: a lookup that returned an answer has been routed.
C12_Witness ==
  \E t \in Consumers :
    /\ Returned(t) /\ outcome[t].value = "answer"
    /\ tasks[rtask[t]].task_type = "rag"

\* the calls a route_task call has made once its dispatch is over
Dispatched == {"rt_completed", "rt_result", "rt_failed", "rt_error", "rt_return", "rt_raise"}
DispatchOver(t) ==
  \/ pc[t] \in Dispatched
  \/ pc[t] \in InUpdate /\ ret[t] \in Dispatched
  \/ Ended(t)

\* C13 (as claimed): every route_task call makes exactly one resolver call.
C13_OneResolverCall ==
  \A t \in Consumers : DispatchOver(t) => Len(resolverLog[t]) = 1

\* C13 (amended): a route_task call for a "rag" task makes one call, of
\* rag_service.search with task.description; one for an "agent" task makes one
\* call, of ai_agent.execute_task with the task; one for any other task type
\* makes no resolver call; and no call is made a second time, whether it
\* returned or raised.
C13_OneResolverCallPerKnownType ==
  \A t \in Consumers :
    /\ Len(resolverLog[t]) <= 1
    /\ Len(resolverLog[t]) = resolverCalls[t]
    /\ DispatchOver(t) =>
         LET ty == tasks[rtask[t]].task_type IN
           /\ ty = "rag" =>
                resolverLog[t] = <<[resolver |-> "rag_service.search", arg |-> "task.description"]>>
           /\ ty = "agent" =>
                resolverLog[t] = <<[resolver |-> "ai_agent.execute_task", arg |-> "task"]>>
           /\ ty \notin {"rag", "agent"} => resolverLog[t] = << >>

\* C13 witness: a lookup raised and route_task ended after that one call.
C13_Witness ==
  \E t \in Consumers :
    /\ Raised(t) /\ outcome[t].value = "boom"
    /\ Len(resolverLog[t]) = 1

\* C14: for a task type that is neither "rag" nor "agent", route_task calls no
\* resolver, does not raise, returns "Unknown task type", and leaves the task
\* completed with that string as result and recorded in task_history.
C14_UnknownTaskType ==
  \A t \in Consumers :
    (rtask[t] # None /\ tasks[rtask[t]].task_type \notin {"rag", "agent"}) =>
      /\ resolverCalls[t] = 0
      /\ resolverLog[t] = << >>
      /\ rexc[t] = NoError
      /\ Ended(t) =>
           /\ outcome[t] = [kind |-> "return", value |-> "Unknown task type"]
           /\ tasks[rtask[t]].status = "completed"
           /\ tasks[rtask[t]].result = "Unknown task type"
           /\ rtask[t] \in Range(task_history)

\* C14 witness: a task of another type has been routed.
C14_Witness ==
  \E t \in Consumers :
    Ended(t) /\ tasks[rtask[t]].task_type = "other"

\* C15: whenever route_task has given control back to its caller, by return or
\* by exception, the task has a terminal status, the last update_task of the
\* call published a terminal status and has ended, and the task is in
\* task_history; no call ends with the task still processing.
C15_TerminalWhenCallerResumes ==
  \A t \in Consumers :
    /\ (pc[t] = "idle" /\ rtask[t] # None) => Ended(t)
    /\ Ended(t) =>
         /\ tasks[rtask[t]].status \in Terminal
         /\ published[t] # << >>
         /\ published[t][Len(published[t])] \in Terminal
         /\ rtask[t] \in Range(task_history)
         /\ lock # t

\* C15 witness: an action task came back to the caller by return.
C15_Witness ==
  \E t \in Consumers :
    Returned(t) /\ tasks[rtask[t]].task_type = "agent"

\* how often listener i occurs among the listeners a notification called
CalledTimes(i, called) == Cardinality({k \in 1..Len(called) : called[k] = i})
\* t is in the notification loop of a mutating call / leaves it in this step
Notifying(t) == pc[t] \in NotifyAt
NotifyEnds(t) == pc[t] \in NotifyAt /\ pc'[t] \notin NotifyAt
\* the state change of the mutating call that t is notifying about is in place
Applied(t) ==
  CASE pc[t] = "add_notify" ->
         /\ transcript # << >>
         /\ transcript[Len(transcript)].seq = appended
         /\ transcript[Len(transcript)].by = t
    [] pc[t] = "clr_notify" ->
         /\ transcript = << >>
         /\ conversation_id = 1 + clears
    [] pc[t] = "upd_notify" ->
         IF tasks[rtask[t]].status \in Terminal
           THEN /\ current_task = None
                /\ task_history # << >>
                /\ task_history[Len(task_history)] = rtask[t]
           ELSE current_task = rtask[t]
    [] OTHER -> TRUE

\* C16: an exception raised by a listener is caught for that listener alone:
\* every synchronous listener registered after it is still called in the same
\* notification, no exception leaves the loop, and the mutating call ends as it
\* does without listeners, with its state change in place and the lock released.
C16_ListenerErrorIsolated ==
  [][\A t \in Consumers : NotifyEnds(t) =>
       /\ \A i, j \in 1..Len(listeners) :
            (i < j /\ listeners[i] = "sync_raises" /\ listeners[j] # "async") =>
              CalledTimes(j, invoked') = 1
       /\ given'.raised = FALSE
       /\ Applied(t)
       /\ stateVars' = stateVars
       /\ pc'[t] = (IF pc[t] = "upd_notify" THEN ret[t] ELSE "idle")
       /\ lock' = NoOne]_vars

\* C16 witness: a notification has called a listener that raises and then the
\* listener registered after it.
C16_Witness ==
  /\ given # NoSnap
  /\ listeners = <<"sync_raises", "sync_ok">>
  /\ invoked = <<1, 2>>
  /\ \A t \in Consumers : pc[t] = "idle"

\* a mutating call reaches the end of its locked block in this step
MutationApplied(t) ==
  \/ pc[t] = "idle" /\ appended' = appended + 1
  \/ pc[t] = "clr_id" /\ pc'[t] # "clr_id"
  \/ pc[t] = "upd" /\ pc'[t] \notin {"upd", "upd_append"}
  \/ pc[t] = "upd_clear" /\ pc'[t] # "upd_clear"

\* C17 (as claimed): every notification calls every registered listener exactly
\* once.
C17_EveryListenerInvoked ==
  [][\A t \in Consumers : NotifyEnds(t) =>
       \A i \in 1..Len(listeners) : CalledTimes(i, invoked') = 1]_vars

\* C17 (amended): every add_transcript_entry, update_task and clear_transcript
\* made while listeners are registered ends in one notification, which runs
\* after the state change and with the lock held; it calls every registered
\* listener that is not a coroutine function exactly once, in registration
\* order, with the live state object, and calls no coroutine function.
C17_SyncListenersInvoked ==
  /\ [][\A t \in Consumers :
          /\ (MutationApplied(t) /\ listeners # << >>) => pc'[t] \in NotifyAt
          /\ Notifying(t) => (NotifyEnds(t) \/ pc'[t] = pc[t])
          /\ NotifyEnds(t) =>
               /\ \A i \in 1..Len(listeners) :
                    CalledTimes(i, invoked') = (IF listeners[i] = "async" THEN 0 ELSE 1)
               /\ \A a, b \in 1..Len(invoked') : a < b => invoked'[a] < invoked'[b]
               /\ given'.state = "self.state"
               /\ stateVars' = stateVars]_vars
  /\ [](\A t \in Consumers : Notifying(t) => (lock = t /\ Applied(t)))

\* C17 witness: the terminal update_task of a route_task call has notified while
\* a coroutine function and a plain function were registered.
C17_Witness ==
  /\ given # NoSnap
  /\ listeners = <<"async", "sync_ok">>
  /\ invoked = <<2>>
  /\ task_history # << >>
  /\ \A t \in Consumers : pc[t] = "idle"

\* C18 (as claimed): every entry of the transcript was put there by
\* add_transcript_entry; no entry got there by another statement.
C18_AllEntriesThroughAppendOperation ==
  \A i \in 1..Len(transcript) : transcript[i].via = "add_transcript_entry"

\* this step is an append by add_transcript_entry / it creates a save task
Appends == appended' = appended + 1
Schedules == Len(saveTasks') = Len(saveTasks) + 1

\* C19 (as claimed): with a transcript_storage, add_transcript_entry schedules
\* an auto-save on the 5th, 10th, ... append and on no other, whatever calls of
\* clear_transcript come between the appends.
C19_EveryFifthAppend ==
  [][Appends => (Schedules <=> appended' % AutoSaveThreshold = 0)]_vars

\* C19 (amended): with a transcript_storage, add_transcript_entry schedules an
\* auto-save exactly when the transcript holds a multiple of 5 entries after
\* the append; clear_transcript empties the transcript, so the count starts
\* again after a clear, and without a clear the saves fall on every 5th append.
C19_EveryFifthEntry ==
  /\ [][/\ Appends => (Schedules <=> Len(transcript') % AutoSaveThreshold = 0)
        /\ ~Appends => Len(saveTasks') = Len(saveTasks)]_vars
  /\ [](clears = 0 => Len(saveTasks) = appended \div AutoSaveThreshold)

\* C19 witness: four appends, a clear and five more appends: the one save was
\* scheduled by the 9th append.
C19_Witness ==
  /\ storage
  /\ appended = 9
  /\ clears = 1
  /\ Len(transcript) = 5
  /\ Len(saveTasks) = 1

Pending(k) == saveTasks[k].status \in {"scheduled", "writing"}

\* C20: the add_transcript_entry that schedules an auto-save returns, with the
\* entry appended and the lock released, while the save has not started; a
\* step of the save changes neither the state nor the lock nor any caller's
\* position, whether the write ends, fails or never ends.
C20_AutoSaveFireAndForget ==
  [][/\ (Appends /\ Schedules) =>
          /\ saveTasks'[Len(saveTasks')].status = "scheduled"
          /\ \A t \in Consumers : pc'[t] = "idle"
          /\ lock' = NoOne
          /\ Len(transcript') = Len(transcript) + 1
     /\ (saveTasks' # saveTasks /\ ~Appends) =>
          /\ stateVars' = stateVars
          /\ lock' = lock
          /\ pc' = pc]_vars

\* C20 witness: the write of a save has begun and has not ended, and appends
\* made after the one that scheduled it are in the transcript.
C20_Witness ==
  /\ Len(saveTasks) = 1
  /\ saveTasks[1].status = "writing"
  /\ Len(transcript) > saveTasks[1].at
  /\ \A t \in Consumers : pc[t] = "idle" /\ lock = NoOne

\* a step of save_current_transcript or of the auto-save task
SaveStep == saveRet' # saveRet \/ (saveTasks' # saveTasks /\ ~Appends)

\* C21: a failure of the transcript storage, in the auto-save or in
\* save_current_transcript, never reaches the caller of add_transcript_entry or
\* of save_current_transcript (the latter gets None), and no step of a save
\* changes conversation_id, transcript, current_task or task_history.
C21_SaveFailureContained ==
  /\ [][SaveStep =>
          /\ stateVars' = stateVars
          /\ lock' = lock
          /\ \A t \in Consumers : pc'[t] = pc[t]]_vars
  /\ [](\A t \in Readers :
          /\ saveRet[t].kind \in {"not called", "in call", "None", "filename", "None after error"}
          /\ pc[t] = "idle" => saveRet[t].kind # "in call")

\* C21 witness: an auto-save has failed and a save_current_transcript call
\* whose write failed has returned, with entries in the transcript.
C21_Witness ==
  /\ \E k \in 1..Len(saveTasks) : saveTasks[k].status = "failed"
  /\ \E t \in Readers : pc[t] = "idle" /\ saveRet[t].kind = "None after error"
  /\ transcript # << >>

\* C22 (as claimed): save_current_transcript returns None and writes nothing
\* when no transcript_storage is configured or when the transcript is empty.
C22_NoWriteWhenNothingToSave ==
  /\ ~storage =>
       /\ writes = << >>
       /\ \A t \in Readers : saveRet[t].kind \in {"not called", "None"}
  /\ \A k \in 1..Len(writes) : writes[k].entries > 0

\* the positions inside a method of the StateManager at which the conversation
\* state or the listener list is being read or written
InsideStateManager ==
  {"clr_id", "upd_append", "upd_clear", "add_notify", "upd_notify", "clr_notify", "sv_write"}

\* C23 (as claimed): a thread that is reading or writing the conversation state
\* inside a StateManager operation holds the lock.
C23_StateAccessUnderLock ==
  \A t \in Threads : pc[t] \in InsideStateManager => lock = t

\* the registered listeners that call get_state when they are notified
ReadingListeners == {i \in 1..Len(listeners) : listeners[i] = "sync_reads"}

\* C24: a thread that is notifying listeners inside add_transcript_entry,
\* update_task or clear_transcript owns the lock and is not stopped by a
\* listener that calls get_state: every such listener gets the lock again and
\* returns, the mutating call then ends, and the lock is owned by no thread
\* when it has returned.
C24_LockReentrant ==
  /\ [](\A t \in Consumers :
          Notifying(t) => (lock = t /\ ENABLED NotifyListeners(t)))
  /\ [][\A t \in Consumers : NotifyEnds(t) =>
          /\ given'.reads = Cardinality(ReadingListeners)
          /\ pc'[t] = (IF pc[t] = "upd_notify" THEN ret[t] ELSE "idle")
          /\ lock' = NoOne]_vars

\* C24 witness: a clear_transcript has returned after a listener called
\* get_state during its notification.
C24_Witness ==
  /\ given # NoSnap
  /\ given.reads = 1
  /\ listeners = <<"sync_reads">>
  /\ clears = 1
  /\ transcript = << >>
  /\ lock = NoOne
  /\ \A t \in Consumers : pc[t] = "idle"

\* t is waiting for a long-latency collaborator: the LLM, or a resolver
InLongCall(t) == pc[t] \in {"tg_generate", "rt_resolve"}

\* C25: while generate_task_from_transcript, rag_service.search or
\* ai_agent.execute_task is in progress the calling thread does not own the
\* lock, and the producer owns it at no time between two fragments; so an
\* append by the producer and a get_state by the UI can be made unless some
\* other operation is inside its locked block.
C25_NoLockDuringLongCalls ==
  /\ lock # Producer
  /\ \A t \in Consumers : InLongCall(t) =>
       /\ lock # t
       /\ (lock = NoOne /\ appended < MaxAppends) => ENABLED OnTranscriptEntry(Producer)
       /\ lock = NoOne => \A r \in Readers : ENABLED GetState(r)

\* C25 witness: the task generation of a trigger is in progress while the
\* Clear handler is inside its locked block.
C25_Witness ==
  \E t \in Consumers : \E h \in Handlers :
    pc[t] = "tg_generate" /\ pc[h] = "clr_id" /\ lock = h

\* the replies from which no Task can be built whatever generated_plan is
FailedReplies ==
  {l \in LLMOutcomes :
     l.kind # "dict" \/ l.task_type = "null" \/ l.issue_summary = "null"}
IsFallback(g) ==
  /\ g.kind = "task"
  /\ g.task_type = "rag"
  /\ g.description = "Unable to process conversation - manual review needed"
GeneratedBy(t) == trig[t].kind = "routing" /\ trig[t].gen = 1

\* C28: generate_task_from_transcript always returns a Task, never None and
\* never an exception; for an empty transcript, and when the LLM call or the
\* building of the Task fails, the Task is the fallback: task_type "rag", with
\* a description that says manual review is needed.
C28_AlwaysATask ==
  /\ \A tr \in {<< >>, transcript} : \A l \in LLMOutcomes :
       /\ GenerateTask(tr, l).kind = "task"
       /\ (tr = << >> \/ l \in FailedReplies) => IsFallback(GenerateTask(tr, l))
  /\ \A t \in Consumers :
       /\ (pc[t] = "tg_generate" /\ ntasks < MaxTasks) => ENABLED TriggerGenerate(t)
       /\ (GeneratedBy(t) /\ (trig[t].empty \/ trig[t].llm \in FailedReplies)) =>
            tasks[rtask[t]].task_type = "rag"

\* C28 witness: the LLM call of a trigger raised and the task that came back is
\* being routed.
C28_Witness ==
  \E t \in Consumers :
    /\ GeneratedBy(t) /\ trig[t].llm.kind = "raise" /\ ~trig[t].empty
    /\ pc[t] = "rt_processing"

\* C29: every Task that generate_task_from_transcript returns, for every
\* transcript and every reply of the LLM, has status pending, result None and
\* task_type "rag" or "agent".
C29_GeneratedTaskWellFormed ==
  /\ \A tr \in {<< >>, transcript} : \A l \in LLMOutcomes :
       LET g == GenerateTask(tr, l) IN
         g.kind = "task" =>
           /\ g.status = "pending"
           /\ g.result = NoResult
           /\ g.task_type \in {"rag", "agent"}
  /\ \A t \in Consumers :
       GeneratedBy(t) => tasks[rtask[t]].task_type \in {"rag", "agent"}
  /\ \A t \in Consumers :
       (GeneratedBy(t) /\ pc[t] = "rt_processing") =>
         (tasks[rtask[t]].status = "pending" /\ tasks[rtask[t]].result = NoResult)

\* C29 witness: the LLM replied with a task_type that is neither "rag" nor
\* "agent", and the task that came back is about to be routed.
C29_Witness ==
  \E t \in Consumers :
    /\ GeneratedBy(t) /\ ~trig[t].empty
    /\ trig[t].llm.kind = "dict" /\ trig[t].llm.task_type = "other"
    /\ trig[t].llm.issue_summary = "text"
    /\ pc[t] = "rt_processing"

\* t's test of the transcript is made in this step
Checks(t) == pc[t] = "tg_check" /\ pc'[t] # "tg_check"

\* C30: a trigger that finds the transcript empty returns "No conversation to
\* process" and an empty result, calls neither generate_task_from_transcript
\* nor route_task, and leaves current_task and task_history as they were.
C30_EmptyTranscriptShortCircuit ==
  /\ [][\A t \in Consumers : (Checks(t) /\ transcript = << >>) =>
          /\ trig'[t].kind = "returned"
          /\ trig'[t].status = "No conversation to process"
          /\ trig'[t].result = ""
          /\ trig'[t].gen = 0
          /\ pc'[t] = "idle"
          /\ ntasks' = ntasks
          /\ rtask' = rtask
          /\ current_task' = current_task
          /\ task_history' = task_history]_vars
  /\ [](\A t \in Consumers :
          (trig[t].kind = "returned" /\ trig[t].status = "No conversation to process") =>
            (trig[t].gen = 0 /\ pc[t] = "idle"))

\* C30 witness: a trigger has returned "No conversation to process" and no
\* Task object was ever created.
C30_Witness ==
  \E t \in Consumers :
    /\ trig[t].kind = "returned"
    /\ trig[t].status = "No conversation to process"
    /\ ntasks = 0
    /\ task_history = << >>

\* ---------------------------------------------------------------------------
\* C26: under fair scheduling no context blocks another for ever: the producer's
\* callback waiting for the lock appends, an update_task waiting for the lock
\* goes on, every started operation of the producer, the UI and the main
\* thread's stop comes to its end, a held lock is released, and a snapshot
\* read can be made again and again
Waiting(t) == pc[t] \in {"cb_lock", "upd"} /\ ~LockAvailable(t)

C26_NoIndefiniteBlocking ==
  /\ \A t \in Threads \cup Handlers \cup Stoppers : (pc[t] # "idle") ~> (pc[t] = "idle")
  /\ (lock # NoOne) ~> (lock = NoOne)
  /\ \A r \in Readers : []<>(ENABLED GetState(r))

\* the producer's callback waits for the lock the UI holds while stop is running
C26_Witness ==
  /\ Waiting(Producer)
  /\ \E t \in Stoppers : pc[t] = "stop_speech"

\* ---------------------------------------------------------------------------
\* C27: a call of stop raises nothing, and a second call of stop leaves the
\* speech service as the first call left it, with is_running false
StoppedTwice == app.stops = 2 /\ \A t \in Stoppers : pc[t] = "idle"

C27_StopIdempotent ==
  /\ ~app.raised
  /\ StoppedTwice => speech = app.first /\ ~speech.is_running /\ ~app.is_running


\* ---------------------------------------------------------------------------
\* t's trigger has come back from a route_task call
TriggerOver(t) == trig[t].kind \notin {"not called", "in call", "routing"} /\ trig[t].gen > 0

\* C31: a trigger never raises, it returns a status and a result: after a
\* route_task that returned, "Task completed successfully" and route_task's
\* value; after a route_task that raised, a status that contains the error's
\* message and an empty result, with the failed task, whose result holds the
\* error, in task_history.
C31_TriggerAlwaysReturnsAPair ==
  \A t \in Consumers :
    /\ trig[t].kind \in {"not called", "in call", "routing", "returned"}
    /\ TriggerOver(t) =>
         /\ trig[t].kind = "returned"
         /\ outcome[t].kind = "return" =>
              /\ trig[t].status = "Task completed successfully"
              /\ trig[t].result = outcome[t].value
         /\ outcome[t].kind = "raise" =>
              /\ Contains(trig[t].status, outcome[t].value)
              /\ trig[t].result = ""
              /\ \E i \in 1..Len(task_history) : task_history[i] = rtask[t]
              /\ tasks[rtask[t]].status = "failed"
              /\ Contains(tasks[rtask[t]].result, outcome[t].value)

\* C31 witness: a trigger whose route_task raised has returned its error status
C31_Witness ==
  \E t \in Consumers :
    /\ TriggerOver(t)
    /\ outcome[t].kind = "raise"
    /\ trig[t].status = "Error: boom"

\* ---------------------------------------------------------------------------
\* C32: the conversation state never holds, in current_task or in
\* task_history, a task whose status is not one of pending, processing,
\* completed, failed, whatever status update_task is given.
C32_OnlyDefinedStatusesHeld ==
  /\ current_task # None => tasks[current_task].status \in Statuses
  /\ \A i \in 1..Len(task_history) : tasks[task_history[i]].status \in Statuses

\* ---------------------------------------------------------------------------
\* the steps of a clear_transcript call of t: its first statement, its second
\* statement, and its return
ClearBegins(t) == pc[t] = "idle" /\ pc'[t] = "clr_id"
ClearSetsId(t) == pc[t] = "clr_id" /\ pc'[t] # "clr_id"
ClearReturns(t) == pc[t] \in {"clr_id", "clr_notify"} /\ pc'[t] = "idle"
InClear(t) == pc[t] \in {"clr_id", "clr_notify"}

\* C33: clear_transcript empties the transcript and gives conversation_id a
\* newly minted value, different from every earlier one, with the lock held
\* from the first statement to the return, so that nothing is appended in
\* between; the listeners are notified after both changes; and the state a
\* get_state returns once the call is back has an empty transcript and the new id.
C33_ClearResetsUnderLock ==
  /\ [][\A t \in Consumers :
          /\ ClearBegins(t) => (transcript' = << >> /\ lock' = t)
          /\ ClearSetsId(t) =>
               /\ conversation_id' \notin 1..conversation_id
               /\ transcript' = << >>
               /\ listeners # << >> => (pc'[t] = "clr_notify" /\ lock' = t)
          /\ (pc[t] = "clr_notify" /\ pc'[t] = "idle") =>
               /\ given'.state = "self.state"
               /\ stateVars' = stateVars
          /\ ClearReturns(t) =>
               /\ lock' = NoOne
               /\ ModelCopy(t)'.taken.transcript = << >>
               /\ ModelCopy(t)'.taken.conversation_id = 1 + clears
               /\ ModelCopy(t)'.taken.conversation_id \notin 1..clears]_vars
  /\ [](\A t \in Consumers :
          InClear(t) =>
            /\ lock = t
            /\ transcript = << >>
            /\ pc[t] = "clr_notify" => conversation_id = 1 + clears)

\* C33 witness: a clear_transcript of a transcript that had entries has
\* notified a listener and returned, and the state is empty under a new id
C33_Witness ==
  /\ clears = 1
  /\ appended >= 1
  /\ transcript = << >>
  /\ conversation_id = 2
  /\ invoked # << >>
  /\ given # NoSnap
  /\ \A t \in Consumers : pc[t] = "idle"

\* ---------------------------------------------------------------------------
\* no operation has been started on the StateManager since it was constructed
\* (a get_state changes nothing and does not count)
Fresh ==
  /\ appended = 0
  /\ clears = 0
  /\ ntasks = 0
  /\ \A t \in Threads : pc[t] = "idle"

\* r's get_state returns in this step
GetStateReturns(r) == snap'[r] # NoSnap /\ snap' # snap

\* C34: get_state on a freshly created StateManager returns an empty
\* transcript, no current_task, an empty task_history and a conversation_id
\* that is not empty.
C34_FreshStateIsEmpty ==
  [][\A r \in Readers :
       (Fresh /\ GetStateReturns(r)) =>
         /\ ListView(snap'[r].transcript, transcript') = << >>
         /\ snap'[r].taken.transcript = << >>
         /\ snap'[r].current_task = None
         /\ ListView(snap'[r].task_history, task_history') = << >>
         /\ snap'[r].taken.task_history = << >>
         /\ snap'[r].conversation_id # EmptyId
         /\ snap'[r].taken.conversation_id = snap'[r].conversation_id]_vars

\* C34 witness: a get_state has returned and nothing else has been called
C34_Witness ==
  /\ Fresh
  /\ \E r \in Readers : snap[r] # NoSnap /\ snap[r].conversation_id = 1

\* ---------------------------------------------------------------------------
\* entries handed to the callback whose handling is not over
InCallback == IF pc[Producer] = "cb_lock" THEN 1 ELSE 0
\* a value is returned to reader r in this step
ReadReturns(r) == (snap'[r] # NoSnap /\ snap' # snap) \/ (tcopy'[r] # NoSnap /\ tcopy' # tcopy)
ReadValue(r) == IF snap[r] # NoSnap THEN snap[r].taken.transcript ELSE tcopy[r].taken

\* what a step of the producer path does to the transcript
ProducerStepKeepsEntries ==
  /\ appended' # appended =>
       /\ pc[Producer] = "cb_lock"
       /\ appended' = appended + 1
       /\ Len(transcript') = Len(transcript) + 1
       /\ IsPrefix(transcript, transcript')
       /\ transcript'[Len(transcript')].seq = appended'
  /\ clears' = clears => IsPrefix(transcript, transcript')
  /\ speech'.dropped # speech.dropped =>
       /\ transcript' = transcript
       /\ appended' = appended
       /\ pc' = pc
       /\ speech'.handed = speech.handed
  /\ speech'.failed # speech.failed =>
       /\ transcript' = transcript
       /\ pc'[Producer] = "idle"
       /\ speech'.transcriber = speech.transcriber
       /\ speech'.is_running = speech.is_running
  /\ \A r \in Readers : ReadReturns(r) => ReadValue(r)' = transcript

C36_PersistedSnapshotConsistent ==
  \A k \in 1..Len(writes) :
    \A i \in 1..Len(writes[k].lines) : writes[k].lines[i].cid = writes[k].cid

\* ---------------------------------------------------------------------------
\* a clear_transcript call empties the list in this step
ListCleared == clears' = clears + 1

\* C37: no step but the first statement of clear_transcript removes, moves or
\* rewrites an entry of the transcript: every other change adds one entry at
\* the end; and of two get_transcript results returned under the same
\* conversation_id the earlier is a prefix of the later.
C37_AppendOnlyBetweenClears ==
  [][/\ (transcript' # transcript /\ ~ListCleared) =>
          /\ Len(transcript') = Len(transcript) + 1
          /\ IsPrefix(transcript, transcript')
     /\ ListCleared => transcript' = << >>
     /\ \A r \in Readers :
          (/\ tcopy[r] # NoSnap
           /\ tcopy'[r] # NoSnap
           /\ tcopy'[r].conversation_id = tcopy[r].conversation_id) =>
             /\ IsPrefix(tcopy[r].taken, tcopy'[r].taken)
             /\ IsPrefix(ListView(tcopy[r].list, transcript),
                         ListView(tcopy'[r].list, transcript'))]_vars

\* C37 witness: a get_transcript result holds two entries of the present
\* conversation, appended by two callers, after an earlier conversation was
\* cleared
C37_Witness ==
  /\ clears = 1
  /\ \E r \in Readers :
       /\ tcopy[r] # NoSnap
       /\ tcopy[r].conversation_id = conversation_id
       /\ Len(tcopy[r].taken) = 2
       /\ tcopy[r].taken = transcript

\* ---------------------------------------------------------------------------
\* the step is a statement of a clear_transcript / an update_task call of t
ClearStatement(t) == ClearBegins(t) \/ ClearSetsId(t)
UpdateStatement(t) == pc[t] \in InUpdate /\ pc'[t] # pc[t]

\* C38: clear_transcript leaves current_task and task_history as they are; an
\* append changes the transcript and nothing else of the state; update_task
\* leaves the transcript and conversation_id as they are; conversation_id
\* changes in clear_transcript only; and task_history changes only by getting
\* one task more at its end.
C38_FrameConditions ==
  [][/\ \A t \in Threads :
          /\ ClearStatement(t) =>
               (current_task' = current_task /\ task_history' = task_history)
          /\ UpdateStatement(t) =>
               (transcript' = transcript /\ conversation_id' = conversation_id)
     /\ appended' # appended =>
          /\ conversation_id' = conversation_id
          /\ current_task' = current_task
          /\ task_history' = task_history
          /\ tasks' = tasks
     /\ conversation_id' # conversation_id => \E t \in Threads : ClearSetsId(t)
     /\ task_history' # task_history =>
          /\ Len(task_history') = Len(task_history) + 1
          /\ IsPrefix(task_history, task_history')]_vars

\* C38 witness: a conversation with a finished task in task_history has been
\* cleared, and an entry appended under the new id
C38_Witness ==
  /\ clears = 1
  /\ conversation_id = 2
  /\ task_history # << >>
  /\ transcript # << >>
  /\ \A t \in Threads : pc[t] = "idle"

\* ---------------------------------------------------------------------------
\* t's route_task call has published "processing" and its resolver is running
Processing(t) == pc[t] = "rt_resolve"
\* how often task k is in task_history
TimesInHistory(k) == Cardinality({i \in 1..Len(task_history) : task_history[i] = k})

\* C39 (as claimed): with two route_task calls for two tasks side by side, each
\* task gets into task_history once, current_task is None when both calls are
\* over, and, whenever the lock is free, current_task names no task that is in
\* task_history and is not None while a call is processing.
C39_OverlappingRoutesKeepCurrentTask ==
  /\ \A k \in 1..ntasks : TimesInHistory(k) <= 1
  /\ \A t \in Routers : Ended(t) => TimesInHistory(rtask[t]) = 1
  /\ (\A t \in Routers : pc[t] = "idle") => current_task = None
  /\ (lock = NoOne /\ current_task # None) => TimesInHistory(current_task) = 0
  /\ (lock = NoOne /\ \E t \in Routers : Processing(t)) => current_task # None

\* ---------------------------------------------------------------------------
\* C40: execute_task ends by returning, whatever fails inside it, and the text
\* it returns for a failure begins "Error executing task:"; so a route_task
\* call for an "agent" task ends with the task completed, never failed,
\* returns what execute_task returned, the error text included, and raises
\* nothing.
C40_AgentErrorsAreResults ==
  /\ \A o \in AgentOutcomes : o.kind = "return"
  /\ \A run \in AgentRuns : \A reply \in AnalysisReplies :
       (run = "raise" \/ reply = "raise") =>
         Contains(ExecuteTask(run, reply).value, "boom")
  /\ \A t \in Consumers :
       (rtask[t] # None /\ tasks[rtask[t]].task_type = "agent") =>
         /\ pc[t] \notin {"rt_failed", "rt_error", "rt_raise"}
         /\ tasks[rtask[t]].status # "failed"
         /\ Ended(t) =>
              /\ outcome[t].kind = "return"
              /\ outcome[t].value = rres[t]
              /\ tasks[rtask[t]].status = "completed"
              /\ tasks[rtask[t]].result = rres[t]
              /\ trace[t] = <<"pending", "processing", "completed">>

\* C40 witness: a route_task call for an "agent" task whose execution failed
\* has returned the error text, the task being completed
C40_Witness ==
  \E t \in Consumers :
    /\ Ended(t)
    /\ tasks[rtask[t]].task_type = "agent"
    /\ outcome[t] = [kind |-> "return", value |-> AgentError]
    /\ tasks[rtask[t]].status = "completed"
====
